---- MODULE Spec2Model ----
(***************************************************************************)
(* Model of deep_cash: the structured algorithm space                     *)
(* (components/algorithm_component.py, algorithm_space.py) and the        *)
(* REINFORCE trainer (cash_reinforce.py).                                  *)
(*                                                                         *)
(* Python values are represented as follows.                               *)
(*   str           a sequence of one-character strings, so that "%s__%s"   *)
(*                 formatting is a concatenation that can be inspected     *)
(*   None / value  NoneVal (the empty sequence) / Some(v) (<<v>>)          *)
(*   list          a sequence                                              *)
(*   dict          a function whose DOMAIN is the set of keys              *)
(***************************************************************************)
EXTENDS Integers, Sequences, FiniteSets, TLC

VARIABLES
    \* hyperparameter enumeration of one component
    hp_pc,          \* position of the hyperparameter driver
    comp,           \* the AlgorithmComponent under enumeration
    name_space,     \* what hyperparameter_name_space() returned
    iterated,       \* what hyperparameter_iterator() generated, as a list
    \* component objects of the process
    registry,       \* the AlgorithmComponent objects constructed so far
    hash_fn,        \* hash((name, component_class, component_type)), for
                    \* the triples hashed so far in this process
    last_call,      \* the last call made on components and what it gave
    \* AlgorithmSpace
    a_space,        \* the AlgorithmSpace instance
    sp_call,        \* the last call made on a_space and what it gave
    \* CASHReinforce
    pc,             \* where fit() stands
    fit_args,       \* the arguments of fit(): n_episodes, n_iter
    trainer,        \* the attributes of the CASHReinforce object
    controller,     \* the controller: its buffers and what it may decode
    t_env,          \* the task environment
    frame,          \* the local variables of fit, _fit_episode, _fit_iter
    calls,          \* how often each collaborator method has been called
    history_out     \* what the last call of history() returned

hpVars == <<hp_pc, comp, name_space, iterated>>
objVars == <<registry, hash_fn, last_call>>
spVars == <<a_space, sp_call>>
trVars == <<pc, fit_args, trainer, controller, t_env, frame, calls, history_out>>

vars == <<hp_pc, comp, name_space, iterated, registry, hash_fn, last_call,
          a_space, sp_call, pc, fit_args, trainer, controller, t_env, frame,
          calls, history_out>>

-----------------------------------------------------------------------------
(* Bounds of the model *)

\* number of hyperparameters a component declares, at most
MaxHyperparameters == 3
\* number of (hyperparameter, value, target) exclusion rules, at most
MaxRules == 2
\* number of AlgorithmComponent objects alive, at most
MaxRegistry == 3
\* number of distinct values hash() takes
HashRange == 2
\* number of slots of a signature, at most
MaxSlots == 2
\* fit(n_episodes, n_iter): the arguments, at most
MaxEpisodes == 2
MaxIter == 3
\* n_episodes * n_iter, at most: the baseline gains one decimal per update
MaxUpdates == 6

-----------------------------------------------------------------------------
(* Python values *)

NoneVal == <<>>
Some(v) == <<v>>
IsNone(o) == o = <<>>
Get(o) == o[1]

EmptyDict == <<>>

\* how a call ends: it returns a value or raises an exception
Return(v) == [exc |-> "", value |-> Some(v)]
Raise(e) == [exc |-> e, value |-> NoneVal]
Returned(out) == out.exc = ""

\* d.update(e): the keys of e replace those of d
DictUpdate(d, e) == [k \in DOMAIN d \cup DOMAIN e |-> IF k \in DOMAIN e THEN e[k] ELSE d[k]]

Range(s) == {s[i] : i \in DOMAIN s}

\* "%s__%s" % (name, h)
Fmt(name, h) == name \o <<"_", "_">> \o h

-----------------------------------------------------------------------------
(* Hyperparameter: {hname, state space}.  The class lives in              *)
(* components/hyperparameter.py; only its use is visible.                  *)

Chars == <<"a", "b", "c", "d", "e", "f">>
HName(i) == <<Chars[i]>>
\* the state space of a categorical hyperparameter with two values
HValues == <<(<<"x">>), (<<"y">>)>>

Hyperparameter(hname, values) == [hname |-> hname, values |-> values]

\* h.get_state_space(with_none_token=False)
get_state_space(h) == h.values

-----------------------------------------------------------------------------
(* _check_hyperparameters (algorithm_component.py:19-37)                   *)

\* dict(hyperparameters): a later pair replaces an earlier one with its key
dict(pairs) ==
    [k \in {pairs[i][1] : i \in DOMAIN pairs} |->
        LET last == CHOOSE i \in DOMAIN pairs :
                        /\ pairs[i][1] = k
                        /\ \A j \in DOMAIN pairs : pairs[j][1] = k => j <= i
        IN pairs[last][2]]

\* line 35: exclude_cases.update(exclude_dict[value])
exclude_cases_update(exclude_cases, rule) == DictUpdate(exclude_cases, rule)

\* the loop of lines 23-35 from position i on; NoneVal is the early return
RECURSIVE check_from(_, _, _, _)
check_from(hyperparameters, exclusion_conditions, i, exclude_cases) ==
    IF i > Len(hyperparameters)
    THEN Some(dict(hyperparameters))
    ELSE LET key == hyperparameters[i][1]
             value == hyperparameters[i][2]
         IN IF key \in DOMAIN exclude_cases /\ value \in exclude_cases[key]
            THEN NoneVal
            ELSE IF key \notin DOMAIN exclusion_conditions
            THEN check_from(hyperparameters, exclusion_conditions, i + 1, exclude_cases)
            ELSE IF value \notin DOMAIN exclusion_conditions[key]
            THEN check_from(hyperparameters, exclusion_conditions, i + 1, exclude_cases)
            ELSE check_from(hyperparameters, exclusion_conditions, i + 1,
                            exclude_cases_update(exclude_cases,
                                                 exclusion_conditions[key][value]))

\* the loop with the rule of position i applied before position i is checked
RECURSIVE check_from_eager(_, _, _, _)
check_from_eager(hyperparameters, exclusion_conditions, i, exclude_cases) ==
    IF i > Len(hyperparameters)
    THEN Some(dict(hyperparameters))
    ELSE LET key == hyperparameters[i][1]
             value == hyperparameters[i][2]
             triggered == /\ key \in DOMAIN exclusion_conditions
                          /\ value \in DOMAIN exclusion_conditions[key]
             cases == IF triggered
                      THEN exclude_cases_update(exclude_cases,
                                                exclusion_conditions[key][value])
                      ELSE exclude_cases
         IN IF key \in DOMAIN cases /\ value \in cases[key]
            THEN NoneVal
            ELSE check_from_eager(hyperparameters, exclusion_conditions, i + 1, cases)

check_hyperparameters_eager(hyperparameters, exclusion_conditions) ==
    check_from_eager(hyperparameters, exclusion_conditions, 1, EmptyDict)

\* _check_hyperparameters: Some(dict) for a valid setting, NoneVal otherwise
check_hyperparameters(hyperparameters, exclusion_conditions) ==
    check_from(hyperparameters, exclusion_conditions, 1, EmptyDict)

\* exclude_cases as the loop of lines 23-35 holds it on reaching position i
\* (positions 1..i-1 processed, none of them returning early)
RECURSIVE exclude_cases_before(_, _, _)
exclude_cases_before(hyperparameters, exclusion_conditions, i) ==
    IF i <= 1 THEN EmptyDict
    ELSE LET prev == exclude_cases_before(hyperparameters, exclusion_conditions, i - 1)
             key == hyperparameters[i - 1][1]
             value == hyperparameters[i - 1][2]
         IN IF key \notin DOMAIN exclusion_conditions
            THEN prev
            ELSE IF value \notin DOMAIN exclusion_conditions[key]
            THEN prev
            ELSE exclude_cases_update(prev, exclusion_conditions[key][value])

-----------------------------------------------------------------------------
(* AlgorithmComponent (algorithm_component.py:40-185)                      *)

\* the attributes __init__ sets (lines 106-115)
Component(name, component_class, component_type, hyperparameters, constant_hyperparameters, env_dep_hyperparameters, exclusion_conditions) ==
    [name |-> name,
     component_class |-> component_class,
     component_type |-> component_type,
     hyperparameters |-> hyperparameters,
     constant_hyperparameters |->
        IF IsNone(constant_hyperparameters) THEN EmptyDict
        ELSE Get(constant_hyperparameters),
     env_dep_hyperparameters |->
        IF IsNone(env_dep_hyperparameters) THEN EmptyDict
        ELSE Get(env_dep_hyperparameters),
     exclusion_conditions |-> exclusion_conditions]

\* hyperparameter_name_space with the two format arguments exchanged
hyperparameter_name_space_swapped(c) ==
    IF IsNone(c.hyperparameters) THEN NoneVal
    ELSE LET hs == Get(c.hyperparameters)
         IN Some([i \in DOMAIN hs |-> Fmt(hs[i].hname, c.name)])

\* hyperparameter_name_space (lines 128-132)
hyperparameter_name_space(c) ==
    IF IsNone(c.hyperparameters) THEN NoneVal
    ELSE LET hs == Get(c.hyperparameters)
         IN Some([i \in DOMAIN hs |-> Fmt(c.name, hs[i].hname)])

\* hyperparameter_state_space (lines 134-140): the OrderedDict as the list
\* of its (name, state space) items
hyperparameter_state_space(c) ==
    IF IsNone(c.hyperparameters) THEN <<>>
    ELSE LET hs == Get(c.hyperparameters)
             names == Get(hyperparameter_name_space(c))
         IN [i \in DOMAIN hs |-> <<names[i], get_state_space(hs[i])>>]

\* format_exclusion_conditions (lines 159-161)
format_exclusion_conditions(c, conds) ==
    [h \in DOMAIN conds |->
        [q \in {Fmt(c.name, k) : k \in DOMAIN conds[h]} |->
            conds[h][CHOOSE k \in DOMAIN conds[h] : Fmt(c.name, k) = q]]]

\* hyperparameter_exclusion_conditions (lines 153-167)
hyperparameter_exclusion_conditions(c) ==
    IF IsNone(c.hyperparameters) \/ IsNone(c.exclusion_conditions)
    THEN EmptyDict
    ELSE LET ec == Get(c.exclusion_conditions)
         IN [q \in {Fmt(c.name, hname) : hname \in DOMAIN ec} |->
                format_exclusion_conditions(
                    c, ec[CHOOSE hname \in DOMAIN ec : Fmt(c.name, hname) = q])]

\* itertools.product(*lists): the tuples in lexicographic order, the last
\* list varying fastest; product of no lists is the one empty tuple
RECURSIVE product(_)
product(lists) ==
    IF Len(lists) = 0 THEN <<(<<>>)>>
    ELSE LET rest == product(Tail(lists))
             first == Head(lists)
             n == Len(rest)
         IN [i \in 1..(Len(first) * n) |->
                <<first[((i - 1) \div n) + 1]>> \o rest[((i - 1) % n) + 1]]

\* expanded_state_space (lines 145-147)
expanded_state_space(c) ==
    LET items == hyperparameter_state_space(c)
    IN [i \in DOMAIN items |->
            [j \in DOMAIN items[i][2] |-> <<items[i][1], items[i][2][j]>>]]

\* filter(None, iterable): the truthy elements; None and the empty dict are
\* falsy
RECURSIVE filter_none(_)
filter_none(results) ==
    IF Len(results) = 0 THEN <<>>
    ELSE LET r == Head(results)
         IN IF IsNone(r) \/ Get(r) = EmptyDict
            THEN filter_none(Tail(results))
            ELSE <<Get(r)>> \o filter_none(Tail(results))

\* hyperparameter_iterator (lines 142-151), as the list it generates
hyperparameter_iterator(c) ==
    LET settings == product(expanded_state_space(c))
    IN filter_none([i \in DOMAIN settings |->
            check_hyperparameters(settings[i],
                                  hyperparameter_exclusion_conditions(c))])

-----------------------------------------------------------------------------
(* Inputs of the hyperparameter enumeration                                *)

\* one entry exclusion_conditions[src][val][tgt] = ex
Rules ==
    [src : {HName(i) : i \in 1..MaxHyperparameters},
     val : Range(HValues),
     tgt : {HName(i) : i \in 1..MaxHyperparameters},
     ex : {{v} : v \in Range(HValues)}]

SameKey(r, q) == r.src = q.src /\ r.val = q.val /\ r.tgt = q.tgt

\* the sets of at most n entries, no two for the same key
RECURSIVE RuleSets(_)
RuleSets(n) ==
    IF n = 0 THEN {{}}
    ELSE LET smaller == RuleSets(n - 1)
         IN smaller \cup
            {rs \cup {r} : rs \in smaller, r \in Rules}

KeyedRuleSets ==
    {rs \in RuleSets(MaxRules) : \A r, q \in rs : SameKey(r, q) => r = q}

\* the nested dict {src: {val: {tgt: ex}}} holding the entries rs
ExclusionDict(rs) ==
    [s \in {r.src : r \in rs} |->
        [v \in {r.val : r \in {q \in rs : q.src = s}} |->
            [t \in {r.tgt : r \in {q \in rs : q.src = s /\ q.val = v}} |->
                (CHOOSE r \in rs : r.src = s /\ r.val = v /\ r.tgt = t).ex]]]

DeclaredHyperparameters(k) ==
    [i \in 1..k |-> Hyperparameter(HName(i), HValues)]

CName == <<"R">>

HPComponents ==
    {Component(CName, "Ridge", "regressor", hs, NoneVal, NoneVal, ec) :
        hs \in {NoneVal, Some(DeclaredHyperparameters(0))},
        ec \in {NoneVal, Some(EmptyDict)}}
    \cup
    {Component(CName, "Ridge", "regressor",
               Some(DeclaredHyperparameters(MaxHyperparameters)),
               NoneVal, NoneVal, ec) :
        ec \in {NoneVal} \cup {Some(ExclusionDict(rs)) : rs \in KeyedRuleSets}}

-----------------------------------------------------------------------------
(* Values of the variables a driver does not use                           *)

NoCall == [op |-> "none", args |-> <<>>, out |-> Raise("")]

HPIdle ==
    /\ hp_pc = "idle"
    /\ comp = NoneVal
    /\ name_space = NoneVal
    /\ iterated = <<>>

ObjIdle ==
    /\ registry = {}
    /\ hash_fn = EmptyDict
    /\ last_call = NoCall

SpaceIdle ==
    /\ a_space = NoneVal
    /\ sp_call = NoCall

TrainerIdle ==
    /\ pc = "idle"
    /\ fit_args = NoneVal
    /\ trainer = NoneVal
    /\ controller = NoneVal
    /\ t_env = NoneVal
    /\ frame = NoneVal
    /\ calls = NoneVal
    /\ history_out = NoneVal

-----------------------------------------------------------------------------
(* Driver of the hyperparameter enumeration: one component, on which       *)
(* hyperparameter_name_space and hyperparameter_iterator are called.       *)

HPInit ==
    /\ comp \in HPComponents
    /\ hp_pc = "start"
    /\ name_space = NoneVal
    /\ iterated = <<>>
    /\ ObjIdle
    /\ SpaceIdle
    /\ TrainerIdle

CallNameSpace ==
    /\ hp_pc = "start"
    /\ hp_pc' = "name_space"
    /\ name_space' = hyperparameter_name_space(comp)
    /\ UNCHANGED <<comp, iterated, objVars, spVars, trVars>>

CallHyperparameterIterator ==
    /\ hp_pc = "start"
    /\ hp_pc' = "iterated"
    /\ iterated' = hyperparameter_iterator(comp)
    /\ UNCHANGED <<comp, name_space, objVars, spVars, trVars>>

HPNext ==
    \/ CallNameSpace
    \/ CallHyperparameterIterator

SpecHP == HPInit /\ [][HPNext]_vars

-----------------------------------------------------------------------------
(* AlgorithmComponent objects: construction, hash and equality            *)
(* (algorithm_component.py:43-115, 181-185)                                *)

\* constants.ALGORITHM_TYPES; the module is components/constants.py
ALGORITHM_TYPES ==
    {"one_hot_encoder", "imputer", "rescaler", "feature_preprocessor",
     "classifier", "regressor"}

\* __init__ without the check of lines 103-105
AlgorithmComponent_init_unchecked(name, component_class, component_type, hyperparameters, constant_hyperparameters, env_dep_hyperparameters, exclusion_conditions) ==
    Return(Component(name, component_class,
                     IF IsNone(component_type) THEN "None" ELSE Get(component_type),
                     hyperparameters, constant_hyperparameters,
                     env_dep_hyperparameters, exclusion_conditions))

\* __init__ (lines 43-115); component_type is NoneVal when omitted
AlgorithmComponent_init(name, component_class, component_type, hyperparameters, constant_hyperparameters, env_dep_hyperparameters, exclusion_conditions) ==
    IF IsNone(component_type) \/ Get(component_type) \notin ALGORITHM_TYPES
    THEN Raise("ValueError")
    ELSE Return(Component(name, component_class, Get(component_type),
                          hyperparameters, constant_hyperparameters,
                          env_dep_hyperparameters, exclusion_conditions))

\* the tuple __hash__ hashes (line 182)
HashKey(c) == <<c.name, c.component_class, c.component_type>>

\* __hash__ (lines 181-182), once the process has hashed the tuple
component_hash(c) == hash_fn[HashKey(c)]

\* __eq__ (lines 184-185) against an object whose hash is other_hash
component_eq(c, other_hash) == component_hash(c) = other_hash

\* hash() is a function fixed for the life of the process, whose values on
\* strings and classes differ from process to process: the values it takes
\* on the keys not hashed before are any values of its range
HashExtensions(keys) ==
    {DictUpdate(hash_fn, h) :
        h \in [keys \ DOMAIN hash_fn -> 0..(HashRange - 1)]}

-----------------------------------------------------------------------------
(* Inputs of the constructor: the base component and what differs from it  *)
(* in one argument                                                         *)

BaseArgs ==
    [name |-> <<"A">>, component_class |-> "Ridge",
     component_type |-> Some("regressor"), hyperparameters |-> NoneVal,
     constant_hyperparameters |-> NoneVal, env_dep_hyperparameters |-> NoneVal,
     exclusion_conditions |-> NoneVal]

TunedArgs ==
    [BaseArgs EXCEPT
        !.hyperparameters = Some(DeclaredHyperparameters(2)),
        !.constant_hyperparameters = Some((<<"k">> :> 1)),
        !.env_dep_hyperparameters = Some((<<"e">> :> 1)),
        !.exclusion_conditions =
            Some(ExclusionDict({[src |-> HName(1), val |-> HValues[1],
                                 tgt |-> HName(2), ex |-> {HValues[1]}]}))]

ConstructorArgs ==
    {BaseArgs, TunedArgs,
     [BaseArgs EXCEPT !.name = <<"B">>],
     [BaseArgs EXCEPT !.component_class = "Lasso"]}
    \cup {[BaseArgs EXCEPT !.component_type = Some(t)] :
            t \in ALGORITHM_TYPES \cup {"clusterer"}}
    \cup {[BaseArgs EXCEPT !.component_type = NoneVal]}

-----------------------------------------------------------------------------
(* Driver of the component objects: components are constructed and         *)
(* compared.                                                               *)

ObjInit ==
    /\ registry = {}
    /\ hash_fn = EmptyDict
    /\ last_call = NoCall
    /\ HPIdle
    /\ SpaceIdle
    /\ TrainerIdle

Construct ==
    /\ Cardinality(registry) < MaxRegistry
    /\ \E a \in ConstructorArgs :
        LET out == AlgorithmComponent_init(
                        a.name, a.component_class, a.component_type,
                        a.hyperparameters, a.constant_hyperparameters,
                        a.env_dep_hyperparameters, a.exclusion_conditions)
        IN /\ last_call' = [op |-> "init", args |-> <<a.component_type>>,
                             out |-> out]
           /\ registry' = IF Returned(out)
                          THEN registry \cup {Get(out.value)}
                          ELSE registry
    /\ UNCHANGED <<hash_fn, hpVars, spVars, trVars>>

\* a == b for two components: both are hashed, the hashes compared
CallEq ==
    /\ \E a, b \in registry :
        \E h \in HashExtensions({HashKey(a), HashKey(b)}) :
            /\ hash_fn' = h
            /\ last_call' = [op |-> "eq", args |-> <<>>,
                             out |-> Return(h[HashKey(a)] = h[HashKey(b)])]
    /\ UNCHANGED <<registry, hpVars, spVars, trVars>>

ObjNext ==
    \/ Construct
    \/ CallEq

SpecObj == ObjInit /\ [][ObjNext]_vars

-----------------------------------------------------------------------------
(* AlgorithmSpace (algorithm_space.py:58-257)                              *)

\* components/constants.py: the tokens of the controller's vocabulary
START_TOKEN == "<sos>"
END_TOKEN == "<eos>"
NONE_TOKEN == "<none>"

\* line 34
SPECIAL_TOKENS == <<START_TOKEN, END_TOKEN, NONE_TOKEN>>

\* an element of the components list: a component or a token
ComponentItem(c) == [token |-> "", component |-> Some(c)]
TokenItem(t) == [token |-> t, component |-> NoneVal]

\* what hash() is given for a token, a str
TokenKey(t) == <<t>>

\* __init__ (lines 70-104), with the lists given by the caller
AlgorithmSpace(data_preprocessors, feature_preprocessors, classifiers, regressors, with_start_token, with_end_token, with_none_token) ==
    [data_preprocessors |-> data_preprocessors,
     feature_preprocessors |-> feature_preprocessors,
     classifiers |-> classifiers,
     regressors |-> regressors,
     with_start_token |-> with_start_token,
     with_end_token |-> with_end_token,
     with_none_token |-> with_none_token]

\* the components property (lines 106-119)
components(a) ==
    LET registered == a.data_preprocessors \o a.feature_preprocessors
                        \o a.classifiers \o a.regressors
    IN [i \in DOMAIN registered |-> ComponentItem(registered[i])]
        \o (IF a.with_start_token THEN <<TokenItem(START_TOKEN)>> ELSE <<>>)
        \o (IF a.with_end_token THEN <<TokenItem(END_TOKEN)>> ELSE <<>>)
        \o (IF a.with_none_token THEN <<TokenItem(NONE_TOKEN)>> ELSE <<>>)

\* c not in SPECIAL_TOKENS (lines 162, 176): a str is compared as a str, a
\* component through AlgorithmComponent.__eq__
not_in_SPECIAL_TOKENS(item) ==
    IF IsNone(item.component)
    THEN \A i \in DOMAIN SPECIAL_TOKENS : item.token # SPECIAL_TOKENS[i]
    ELSE \A i \in DOMAIN SPECIAL_TOKENS :
            ~component_eq(Get(item.component), hash_fn[TokenKey(SPECIAL_TOKENS[i])])

RECURSIVE select_components(_, _)
select_components(items, component_type) ==
    IF Len(items) = 0 THEN <<>>
    ELSE LET c == Head(items)
         IN IF not_in_SPECIAL_TOKENS(c)
                /\ Get(c.component).component_type = component_type
            THEN <<Get(c.component)>> \o select_components(Tail(items), component_type)
            ELSE select_components(Tail(items), component_type)

\* get_components (lines 154-165)
get_components(a, component_type) ==
    select_components(components(a), component_type)

\* np.random.randint(n): a number of 0..n-1, ValueError when n <= 0
randint(n) ==
    IF n <= 0 THEN {Raise("ValueError")} ELSE {Return(i) : i \in 0..(n - 1)}

\* sample_component drawing among all the components of the space
sample_component_any_type(a, component_type) ==
    LET component_subset ==
            a.data_preprocessors \o a.feature_preprocessors
                \o a.classifiers \o a.regressors
    IN {IF Returned(r) THEN Return(component_subset[Get(r.value) + 1]) ELSE r :
            r \in randint(Len(component_subset))}

\* sample_component (lines 181-191): the outcomes the draw allows
sample_component(a, component_type) ==
    LET component_subset == get_components(a, component_type)
    IN {IF Returned(r) THEN Return(component_subset[Get(r.value) + 1]) ELSE r :
            r \in randint(Len(component_subset))}

\* sample_components_from_signature (lines 126-133)
RECURSIVE sample_components_from_signature(_, _)
sample_components_from_signature(a, signature) ==
    IF Len(signature) = 0 THEN {Return(<<>>)}
    ELSE LET firsts == sample_component(a, Head(signature))
             rests == sample_components_from_signature(a, Tail(signature))
         IN {IF ~Returned(f) THEN f
             ELSE IF ~Returned(r) THEN r
             ELSE Return(<<Get(f.value)>> \o Get(r.value)) :
                f \in firsts, r \in rests}

\* the parameters the estimator of a component class accepts (sklearn)
EstimatorParams(component_class) == {HName(1), HName(2)}

\* env_dep_hyperparameter_name_space (algorithm_component.py:121-126)
env_dep_hyperparameter_name_space(c) ==
    [q \in {Fmt(c.name, h) : h \in DOMAIN c.env_dep_hyperparameters} |->
        c.env_dep_hyperparameters[
            CHOOSE h \in DOMAIN c.env_dep_hyperparameters : Fmt(c.name, h) = q]]

\* the hyperparameters dict of create_ml_framework when set_params is
\* reached (lines 242-248)
RECURSIVE with_env_dep(_, _)
with_env_dep(cs, hyperparameters) ==
    IF Len(cs) = 0 THEN hyperparameters
    ELSE with_env_dep(Tail(cs),
            DictUpdate(hyperparameters, env_dep_hyperparameter_name_space(Head(cs))))

framework_hyperparameters(cs, hyperparameters, env_dep_hyperparameters) ==
    with_env_dep(cs,
        DictUpdate(IF IsNone(hyperparameters) THEN EmptyDict ELSE Get(hyperparameters),
                   IF IsNone(env_dep_hyperparameters) THEN EmptyDict
                   ELSE Get(env_dep_hyperparameters)))

\* Pipeline.set_params(**hyperparameters) accepts a name exactly if it is
\* "<step name>__<parameter of that step's estimator>"
valid_params(cs) ==
    UNION {{Fmt(cs[i].name, h) :
                h \in EstimatorParams(cs[i].component_class)
                        \cup DOMAIN cs[i].constant_hyperparameters} :
            i \in DOMAIN cs}

create_ml_framework_lenient(cs, hyperparameters, env_dep_hyperparameters) ==
    LET params == framework_hyperparameters(cs, hyperparameters, env_dep_hyperparameters)
    IN Return([steps |-> [i \in DOMAIN cs |-> cs[i].name],
               params |-> [k \in DOMAIN params \cap valid_params(cs) |-> params[k]]])

\* create_ml_framework (lines 230-251): the pipeline, as its step names and
\* the parameters set on it
create_ml_framework(cs, hyperparameters, env_dep_hyperparameters) ==
    LET params == framework_hyperparameters(cs, hyperparameters, env_dep_hyperparameters)
    IN IF DOMAIN params \subseteq valid_params(cs)
       THEN Return([steps |-> [i \in DOMAIN cs |-> cs[i].name], params |-> params])
       ELSE Raise("ValueError")

\* the keys of a dict hyperparameter_iterator() of c generates, in the order
\* a loop over the dict gives them
keys_in_order(c, d) ==
    LET names == IF IsNone(hyperparameter_name_space(c)) THEN <<>>
                 ELSE Get(hyperparameter_name_space(c))
    IN SelectSeq(names, LAMBDA k : k \in DOMAIN d)

\* combined_dicts.update(d) (line 256) for d an iterable of dicts: each
\* element is read as a (key, value) pair, which a dict of two keys is
RECURSIVE update_from_iterable(_, _, _)
update_from_iterable(combined, c, elements) ==
    IF Len(elements) = 0 THEN Return(combined)
    ELSE LET keys == keys_in_order(c, Head(elements))
         IN IF Len(keys) # 2 THEN Raise("ValueError")
            ELSE update_from_iterable(
                    DictUpdate(combined, (keys[1] :> keys[2])), c, Tail(elements))

\* _combine_dicts (lines 253-257) on the tuple itertools.product gives for
\* the one-element list [c.hyperparameter_iterator()] (lines 226-227)
combine_dicts(c) ==
    update_from_iterable(EmptyDict, c, hyperparameter_iterator(c))

\* the generator of framework_iterator (lines 220-228) run to its end on the
\* sampled components: component_list takes the values (c,) for c in sampled
RECURSIVE generate_frameworks(_)
generate_frameworks(sampled) ==
    IF Len(sampled) = 0 THEN [items |-> <<>>, exc |-> ""]
    ELSE LET c == Head(sampled)
             combined == combine_dicts(c)
             mlf == IF Returned(combined)
                    THEN create_ml_framework(<<c>>, combined.value, NoneVal)
                    ELSE combined
         IN IF ~Returned(mlf) THEN [items |-> <<>>, exc |-> mlf.exc]
            ELSE LET rest == generate_frameworks(Tail(sampled))
                 IN [items |-> <<Get(mlf.value)>> \o rest.items, exc |-> rest.exc]

\* framework_iterator (lines 209-228), consumed to its end
framework_iterator(a, signature) ==
    {IF Returned(s) THEN Return(generate_frameworks(Get(s.value))) ELSE s :
        s \in sample_components_from_signature(a, signature)}

\* sample_hyperparameter_state_space (algorithm_component.py:169-176)
\* called with the positional arguments args besides self: the method
\* takes none
sample_hyperparameter_state_space(c, args) ==
    IF Len(args) # 0 THEN {Raise("TypeError")}
    ELSE {Return(dict(g)) : g \in Range(product(expanded_state_space(c)))}

\* the loop of sample_ml_framework (lines 203-205) from the state
\* framework_hyperparameters
RECURSIVE sample_framework_hyperparameters(_, _, _)
sample_framework_hyperparameters(cs, signature, hyperparameters) ==
    IF Len(cs) = 0 THEN {Return(hyperparameters)}
    ELSE UNION {IF ~Returned(sampled) THEN {sampled}
                ELSE sample_framework_hyperparameters(Tail(cs), signature,
                        DictUpdate(hyperparameters, Get(sampled.value))) :
                sampled \in sample_hyperparameter_state_space(Head(cs), <<signature>>)}

\* sample_ml_framework (lines 193-207)
sample_ml_framework(a, signature) ==
    UNION {IF ~Returned(cs) THEN {cs}
           ELSE {IF ~Returned(hps) THEN hps
                 ELSE create_ml_framework(Get(cs.value), hps.value, NoneVal) :
                    hps \in sample_framework_hyperparameters(
                                Get(cs.value), signature, EmptyDict)} :
           cs \in sample_components_from_signature(a, signature)}

-----------------------------------------------------------------------------
(* Inputs of the algorithm space: a catalog of two rescalers and two       *)
(* classifiers, each left out or registered with one of its hyperparameter *)
(* declarations                                                            *)

\* the hyperparameters and exclusion_conditions arguments of a factory:
\* none; one hyperparameter; two, the first value of the first excluding
\* the first value of the second
HPConfig(k) ==
    IF k = 0 THEN [hyperparameters |-> NoneVal, exclusion_conditions |-> NoneVal]
    ELSE IF k = 1
    THEN [hyperparameters |-> Some(DeclaredHyperparameters(1)),
          exclusion_conditions |-> NoneVal]
    ELSE [hyperparameters |-> Some(DeclaredHyperparameters(2)),
          exclusion_conditions |->
            Some(ExclusionDict({[src |-> HName(1), val |-> HValues[1],
                                 tgt |-> HName(2), ex |-> {HValues[1]}]}))]

Pool ==
    <<[name |-> <<"S", "1">>, class |-> "MinMaxScaler", type |-> "rescaler", configs |-> {0, 1}],
      [name |-> <<"S", "2">>, class |-> "StandardScaler", type |-> "rescaler", configs |-> {0, 1}],
      [name |-> <<"K", "1">>, class |-> "LogisticRegression", type |-> "classifier", configs |-> {1, 2}],
      [name |-> <<"K", "2">>, class |-> "DecisionTree", type |-> "classifier", configs |-> {1, 2}]>>

\* the component the factory i builds with declaration k
PoolComponent(i, k) ==
    Component(Pool[i].name, Pool[i].class, Pool[i].type,
              HPConfig(k).hyperparameters, NoneVal, NoneVal,
              HPConfig(k).exclusion_conditions)

\* a choice: for each factory, NoneVal (left out) or Some(declaration)
CatalogChoices ==
    {ch \in [DOMAIN Pool -> {NoneVal} \cup {Some(k) : k \in {0, 1, 2}}] :
        \A i \in DOMAIN Pool : IsNone(ch[i]) \/ Get(ch[i]) \in Pool[i].configs}

RECURSIVE Registered(_, _, _)
Registered(ch, type, i) ==
    IF i > Len(Pool) THEN <<>>
    ELSE (IF ~IsNone(ch[i]) /\ Pool[i].type = type
          THEN <<PoolComponent(i, Get(ch[i]))>> ELSE <<>>)
            \o Registered(ch, type, i + 1)

Catalog(ch, tokens) ==
    AlgorithmSpace(Registered(ch, "rescaler", 1), <<>>,
                   Registered(ch, "classifier", 1), <<>>,
                   tokens, tokens, tokens)

PoolKey(i) == <<Pool[i].name, Pool[i].class, Pool[i].type>>

\* hash() on the tokens and on the components' tuples: all values
\* different, or one component's hash equal to that of the start token
DistinctHashes ==
    [k \in {TokenKey(SPECIAL_TOKENS[i]) : i \in DOMAIN SPECIAL_TOKENS}
            \cup {PoolKey(i) : i \in DOMAIN Pool} |->
        IF \E i \in DOMAIN SPECIAL_TOKENS : k = TokenKey(SPECIAL_TOKENS[i])
        THEN (CHOOSE i \in DOMAIN SPECIAL_TOKENS : k = TokenKey(SPECIAL_TOKENS[i])) - 1
        ELSE Len(SPECIAL_TOKENS) + (CHOOSE i \in DOMAIN Pool : k = PoolKey(i)) - 1]

SpaceHashes ==
    {DistinctHashes}
    \cup {[DistinctHashes EXCEPT ![PoolKey(i)] = DistinctHashes[TokenKey(START_TOKEN)]] :
            i \in DOMAIN Pool}

SigTypes == {"rescaler", "classifier", "regressor"}

Signatures == UNION {[1..n -> SigTypes] : n \in 1..MaxSlots}

-----------------------------------------------------------------------------
(* Driver of the algorithm space: sample_component and framework_iterator  *)
(* are called on a space built over a catalog.                             *)

SpaceInit ==
    /\ \E ch \in CatalogChoices, tokens \in BOOLEAN :
            a_space = Some(Catalog(ch, tokens))
    /\ hash_fn \in SpaceHashes
    /\ sp_call = NoCall
    /\ registry = {}
    /\ last_call = NoCall
    /\ HPIdle
    /\ TrainerIdle

CallSampleComponent ==
    /\ sp_call.op = "none"
    /\ \E component_type \in SigTypes :
        \E out \in sample_component(Get(a_space), component_type) :
            sp_call' = [op |-> "sample_component", args |-> <<component_type>>,
                        out |-> out]
    /\ UNCHANGED <<a_space, hpVars, objVars, trVars>>

CallFrameworkIterator ==
    /\ sp_call.op = "none"
    /\ \E signature \in Signatures :
        \E out \in framework_iterator(Get(a_space), signature) :
            sp_call' = [op |-> "framework_iterator", args |-> <<signature>>,
                        out |-> out]
    /\ UNCHANGED <<a_space, hpVars, objVars, trVars>>

CallSampleMlFramework ==
    /\ sp_call.op = "none"
    /\ \E signature \in Signatures :
        \E out \in sample_ml_framework(Get(a_space), signature) :
            sp_call' = [op |-> "sample_ml_framework", args |-> <<signature>>,
                        out |-> out]
    /\ UNCHANGED <<a_space, hpVars, objVars, trVars>>

SpaceNext ==
    \/ CallSampleComponent
    \/ CallFrameworkIterator
    \/ CallSampleMlFramework

SpecSpace == SpaceInit /\ [][SpaceNext]_vars

-----------------------------------------------------------------------------
(* Numbers of the trainer: a float is the fraction <<numerator,            *)
(* denominator>> in lowest terms, nan is <<0, 0>>                          *)

RECURSIVE Gcd(_, _)
Gcd(a, b) == IF b = 0 THEN a ELSE Gcd(b, a % b)

Abs(n) == IF n < 0 THEN 0 - n ELSE n

Frac(n, d) ==
    LET g == Gcd(Abs(n), d)
    IN <<n \div g, d \div g>>

Zero == Frac(0, 1)
One == Frac(1, 1)
Half == Frac(1, 2)
NaN == <<0, 0>>

FAdd(x, y) == Frac(x[1] * y[2] + y[1] * x[2], x[2] * y[2])
FSub(x, y) == Frac(x[1] * y[2] - y[1] * x[2], x[2] * y[2])
FMul(x, y) == Frac(x[1] * y[1], x[2] * y[2])
FGt(x, y) == x[1] * y[2] > y[1] * x[2]

RECURSIVE FSum(_)
FSum(xs) == IF Len(xs) = 0 THEN Zero ELSE FAdd(Head(xs), FSum(Tail(xs)))

np_mean_zero_when_empty(xs) ==
    IF Len(xs) = 0 THEN Zero ELSE FMul(FSum(xs), Frac(1, Len(xs)))

\* np.mean: nan for an empty list
np_mean(xs) == IF Len(xs) = 0 THEN NaN ELSE FMul(FSum(xs), Frac(1, Len(xs)))

\* np.std, kept as the variance it is the square root of
np_std(xs) ==
    IF Len(xs) = 0 THEN [sqrt |-> NaN]
    ELSE LET mu == np_mean(xs)
             sq == [i \in DOMAIN xs |-> FMul(FSub(xs[i], mu), FSub(xs[i], mu))]
         IN [sqrt |-> np_mean(sq)]

\* utils._exponential_mean(x, x_prev, beta)
exponential_mean(x, x_prev, beta) ==
    FAdd(FMul(beta, x), FMul(FSub(One, beta), x_prev))

\* utils._ml_framework_diversity(n_unique, n_total)
ml_framework_diversity(n_unique, n_total) ==
    IF n_total = 0 THEN Zero ELSE Frac(n_unique, n_total)

-----------------------------------------------------------------------------
(* The collaborators of the trainer: a controller that decodes one of a    *)
(* few action sequences and a task environment that evaluates a pipeline   *)
(* to one of a few scores or fails                                         *)

\* controller.ALGORITHM, controller.HYPERPARAMETER
ALGORITHM == "algorithm"
HYPERPARAMETER == "hyperparameter"

Action(action_type, action_name, action, action_log_prob) ==
    [action_type |-> action_type, action_name |-> action_name,
     action |-> action, action_log_prob |-> action_log_prob]

AlgorithmAction(c) == Action(ALGORITHM, c.name, c, 0 - 1)
HyperparameterAction(c, h, v) == Action(HYPERPARAMETER, Fmt(c.name, h), v, 0 - 2)

S1 == PoolComponent(1, 0)
K1 == PoolComponent(3, 1)
K2 == PoolComponent(4, 1)

\* a valid pipeline
SamePipeline ==
    <<AlgorithmAction(S1), AlgorithmAction(K1),
      HyperparameterAction(K1, HName(1), HValues[1])>>

\* another valid pipeline: it sets one hyperparameter twice and ends with
\* an action that is neither an algorithm nor a hyperparameter
OtherPipeline ==
    <<AlgorithmAction(S1), AlgorithmAction(K2),
      HyperparameterAction(K2, HName(1), HValues[1]),
      HyperparameterAction(K2, HName(1), HValues[2]),
      Action("end", <<"e">>, <<"e">>, 0 - 3)>>

\* a hyperparameter that the estimator of K1 does not have
BadPipeline ==
    <<AlgorithmAction(S1), AlgorithmAction(K1),
      HyperparameterAction(K1, HName(3), HValues[1])>>

\* hash() in the process of the trainer when the two classifiers have one
\* hash
CollidingHashes ==
    [DistinctHashes EXCEPT ![HashKey(K2)] = DistinctHashes[HashKey(K1)]]

\* the collaborators and the hash() of the process: a controller that
\* always proposes the same pipeline with a task environment that always
\* scores it 0.5; ones that vary; and ones that propose two pipelines, all
\* evaluated to 1.0, in a process where the classifiers' hashes collide
Collaborators ==
    <<[decodes |-> <<SamePipeline>>,
       scores |-> <<Some(Half)>>,
       env_dep |-> NoneVal,
       data_envs |-> <<"env1", "env2">>,
       loggers |-> {TRUE, FALSE},
       hashes |-> DistinctHashes],
      [decodes |-> <<SamePipeline, OtherPipeline, BadPipeline>>,
       scores |-> <<NoneVal, Some(Zero), Some(One)>>,
       env_dep |-> Some((Fmt(S1.name, HName(1)) :> HValues[1])),
       data_envs |-> <<"env1">>,
       loggers |-> {FALSE},
       hashes |-> DistinctHashes],
      [decodes |-> <<SamePipeline, OtherPipeline>>,
       scores |-> <<Some(One)>>,
       env_dep |-> NoneVal,
       data_envs |-> <<"env1">>,
       loggers |-> {FALSE},
       hashes |-> CollidingHashes]>>

\* the error_reward of the task environment
error_reward == Frac(0 - 1, 1)

\* the beta of the trainer
Beta == Frac(9, 10)

FitArgs ==
    {a \in [n_episodes : 1..MaxEpisodes, n_iter : 1..MaxIter] :
        a.n_episodes * a.n_iter <= MaxUpdates}

NoCalls ==
    [sample_data_env |-> 0, sample |-> 0, decode |-> 0,
     create_ml_framework |-> 0, evaluate |-> 0,
     backward |-> 0, metrics_logger |-> 0, progress_line |-> 0]

Called(method) == [calls EXCEPT ![method] = @ + 1]

-----------------------------------------------------------------------------
(* CASHReinforce (cash_reinforce.py). A dict whose order matters is the    *)
(* sequence of its (key, value) items in insertion order.                  *)

setitem_keeps_first(items, k, v) ==
    IF \E i \in DOMAIN items : items[i][1] = k
    THEN items
    ELSE Append(items, <<k, v>>)

\* d[k] = v on the items of a dict
setitem(items, k, v) ==
    IF \E i \in DOMAIN items : items[i][1] = k
    THEN [i \in DOMAIN items |-> IF items[i][1] = k THEN <<k, v>> ELSE items[i]]
    ELSE Append(items, <<k, v>>)

\* the keys of a mapping as a sequence
RECURSIVE keys_of(_)
keys_of(d) ==
    IF DOMAIN d = {} THEN <<>>
    ELSE LET k == CHOOSE k \in DOMAIN d : TRUE
         IN <<k>> \o keys_of([j \in DOMAIN d \ {k} |-> d[j]])

\* the items of the caller's dict after create_ml_framework has updated it
\* in place (algorithm_space.py lines 243-248)
items_after_update(items, final) ==
    LET old == [i \in DOMAIN items |-> <<items[i][1], final[items[i][1]]>>]
        added == [j \in DOMAIN final \ {items[i][1] : i \in DOMAIN items} |-> final[j]]
        new == keys_of(added)
    IN old \o [i \in DOMAIN new |-> <<new[i], final[new[i]]>>]

\* _get_mlf_components: the loop from the state (algorithms, hyperparameters)
RECURSIVE get_mlf_components_from(_, _, _)
get_mlf_components_from(actions, algorithms, hyperparameters) ==
    IF Len(actions) = 0
    THEN [algorithms |-> algorithms, hyperparameters |-> hyperparameters]
    ELSE LET action == Head(actions)
             algs == IF action.action_type = ALGORITHM
                     THEN Append(algorithms, action.action) ELSE algorithms
             hps == IF action.action_type = HYPERPARAMETER
                    THEN setitem(hyperparameters, action.action_name, action.action)
                    ELSE hyperparameters
         IN get_mlf_components_from(Tail(actions), algs, hps)

get_mlf_components(actions) == get_mlf_components_from(actions, <<>>, <<>>)

\* CASHReinforce.__init__ and the attributes fit() and its callees create
CASHReinforce(beta, with_baseline, metrics_logger) ==
    [beta |-> beta,
     with_baseline |-> with_baseline,
     metrics_logger |-> metrics_logger,
     n_episodes |-> NoneVal,
     data_env_names |-> <<>>,
     losses |-> <<>>,
     mean_rewards |-> <<>>,
     mean_validation_scores |-> <<>>,
     std_validation_scores |-> <<>>,
     n_successful_mlfs |-> <<>>,
     n_unique_mlfs |-> <<>>,
     n_unique_hyperparameters |-> <<>>,
     mlf_framework_diversity |-> <<>>,
     best_validation_scores |-> <<>>,
     best_mlfs |-> <<>>,
     previous_baseline_reward |-> NoneVal,
     current_baseline_reward |-> NoneVal,
     validation_scores |-> <<>>,
     successful_mlfs |-> <<>>,
     algorithm_sets |-> <<>>,
     hyperparameter_sets |-> <<>>,
     best_validation_score |-> NoneVal,
     best_mlf |-> NoneVal,
     n_valid_mlf |-> 0]

\* evaluated is the reward local to evaluate_actions, reward the one local
\* to _fit_iter
NoFrame ==
    [i_episode |-> 0, i_iter |-> 0, actions |-> NoneVal,
     evaluated |-> NoneVal, reward |-> NoneVal]

record_evaluation_ties_replace(tr, env, mlf, algorithms, hyperparameters, reward) ==
    IF IsNone(reward)
    THEN [trainer |-> tr, reward |-> env.error_reward]
    ELSE LET better == \/ IsNone(tr.best_validation_score)
                       \/ ~FGt(Get(tr.best_validation_score), Get(reward))
         IN [trainer |->
                [tr EXCEPT !.n_valid_mlf = @ + 1,
                           !.validation_scores = Append(@, Get(reward)),
                           !.successful_mlfs = Append(@, mlf),
                           !.algorithm_sets = Append(@, algorithms),
                           !.hyperparameter_sets = Append(@, hyperparameters),
                           !.best_validation_score = IF better THEN reward ELSE @,
                           !.best_mlf = IF better THEN Some(mlf) ELSE @],
             reward |-> Get(reward)]

record_evaluation_failures_too(tr, env, mlf, algorithms, hyperparameters, reward) ==
    LET r == IF IsNone(reward) THEN env.error_reward ELSE Get(reward)
        better == \/ IsNone(tr.best_validation_score)
                  \/ FGt(r, Get(tr.best_validation_score))
    IN [trainer |->
            [tr EXCEPT !.n_valid_mlf = @ + 1,
                       !.validation_scores = Append(@, r),
                       !.successful_mlfs = Append(@, mlf),
                       !.algorithm_sets = Append(@, algorithms),
                       !.hyperparameter_sets = Append(@, hyperparameters),
                       !.best_validation_score = IF better THEN Some(r) ELSE @,
                       !.best_mlf = IF better THEN Some(mlf) ELSE @],
        reward |-> r]

record_evaluation_counts_failures(tr, env, mlf, algorithms, hyperparameters, reward) ==
    IF IsNone(reward)
    THEN [trainer |-> [tr EXCEPT !.n_valid_mlf = @ + 1], reward |-> env.error_reward]
    ELSE LET better == \/ IsNone(tr.best_validation_score)
                       \/ FGt(Get(reward), Get(tr.best_validation_score))
         IN [trainer |->
                [tr EXCEPT !.n_valid_mlf = @ + 1,
                           !.validation_scores = Append(@, Get(reward)),
                           !.successful_mlfs = Append(@, mlf),
                           !.algorithm_sets = Append(@, algorithms),
                           !.hyperparameter_sets = Append(@, hyperparameters),
                           !.best_validation_score = IF better THEN reward ELSE @,
                           !.best_mlf = IF better THEN Some(mlf) ELSE @],
             reward |-> Get(reward)]

\* evaluate_actions from the result of t_env.evaluate(mlf) on (lines 172-185)
record_evaluation(tr, env, mlf, algorithms, hyperparameters, reward) ==
    IF IsNone(reward)
    THEN [trainer |-> tr, reward |-> env.error_reward]
    ELSE LET better == \/ IsNone(tr.best_validation_score)
                       \/ FGt(Get(reward), Get(tr.best_validation_score))
         IN [trainer |->
                [tr EXCEPT !.n_valid_mlf = @ + 1,
                           !.validation_scores = Append(@, Get(reward)),
                           !.successful_mlfs = Append(@, mlf),
                           !.algorithm_sets = Append(@, algorithms),
                           !.hyperparameter_sets = Append(@, hyperparameters),
                           !.best_validation_score = IF better THEN reward ELSE @,
                           !.best_mlf = IF better THEN Some(mlf) ELSE @],
             reward |-> Get(reward)]

reset_episode_keeps_lists(tr) ==
    [tr EXCEPT !.algorithm_sets = <<>>, !.hyperparameter_sets = <<>>]

\* fit, lines 66-71: the bookkeeping of an episode
reset_episode(tr) ==
    [tr EXCEPT !.validation_scores = <<>>,
               !.successful_mlfs = <<>>,
               !.algorithm_sets = <<>>,
               !.hyperparameter_sets = <<>>,
               !.best_validation_score = NoneVal,
               !.best_mlf = NoneVal]

update_log_prob_buffer_extend(ctl, actions) ==
    [ctl EXCEPT !.log_prob_buffer =
        @ \o [i \in DOMAIN actions |-> actions[i].action_log_prob]]

\* _update_log_prob_buffer (lines 187-189)
update_log_prob_buffer(ctl, actions) ==
    [ctl EXCEPT !.log_prob_buffer =
        Append(@, [i \in DOMAIN actions |-> actions[i].action_log_prob])]

report_episode_prints_too(tr, cs) ==
    [cs EXCEPT !.metrics_logger = IF tr.metrics_logger THEN @ + 1 ELSE @,
               !.progress_line = @ + 1]

\* fit, lines 109-122: the metrics logger or the default line
report_episode(tr, cs) ==
    IF tr.metrics_logger
    THEN [cs EXCEPT !.metrics_logger = @ + 1]
    ELSE [cs EXCEPT !.progress_line = @ + 1]

update_baseline_reward_buffer_swapped(tr, ctl, reward) ==
    [controller |->
        [ctl EXCEPT !.baseline_reward_buffer = Append(@, tr.current_baseline_reward)],
     trainer |->
        [tr EXCEPT !.current_baseline_reward = exponential_mean(@, reward, tr.beta)]]

update_baseline_reward_buffer_append_after(tr, ctl, reward) ==
    LET updated == exponential_mean(reward, tr.current_baseline_reward, tr.beta)
    IN [controller |->
            [ctl EXCEPT !.baseline_reward_buffer = Append(@, updated)],
        trainer |-> [tr EXCEPT !.current_baseline_reward = updated]]

update_baseline_reward_buffer_successes_only(tr, ctl, reward) ==
    [controller |->
        [ctl EXCEPT !.baseline_reward_buffer =
            IF FGt(Zero, reward) THEN @ ELSE Append(@, tr.current_baseline_reward)],
     trainer |->
        [tr EXCEPT !.current_baseline_reward = exponential_mean(reward, @, tr.beta)]]

\* _update_baseline_reward_buffer (lines 194-198)
update_baseline_reward_buffer(tr, ctl, reward) ==
    [controller |->
        [ctl EXCEPT !.baseline_reward_buffer = Append(@, tr.current_baseline_reward)],
     trainer |->
        [tr EXCEPT !.current_baseline_reward = exponential_mean(reward, @, tr.beta)]]

count_all_mlfs(algorithm_sets) == Len(algorithm_sets)

\* len(set(tuple(s) for s in algorithm_sets)) (line 89): tuples are one
\* element of the set when their components are pairwise ==
count_unique_mlfs(algorithm_sets) ==
    Cardinality({[i \in DOMAIN algorithm_sets[k] |-> component_hash(algorithm_sets[k][i])] :
                    k \in DOMAIN algorithm_sets})

\* len(set([str(d.items()) for d in hyperparameter_sets])) (lines 90-91)
count_unique_hyperparameters(hyperparameter_sets) ==
    Cardinality(Range(hyperparameter_sets))

\* controller.backward(with_baseline): the loss, the buffers drained
backward(ctl, with_baseline) ==
    [loss |-> Zero,
     controller |-> [ctl EXCEPT !.reward_buffer = <<>>,
                                !.log_prob_buffer = <<>>,
                                !.baseline_reward_buffer = <<>>]]

\* history (lines 125-139)
history(tr) ==
    [episode |-> [i \in 1..Get(tr.n_episodes) |-> i],
     data_env_names |-> tr.data_env_names,
     losses |-> tr.losses,
     mean_rewards |-> tr.mean_rewards,
     mean_validation_scores |-> tr.mean_validation_scores,
     std_validation_scores |-> tr.std_validation_scores,
     n_successful_mlfs |-> tr.n_successful_mlfs,
     n_unique_mlfs |-> tr.n_unique_mlfs,
     n_unique_hyperparameters |-> tr.n_unique_hyperparameters,
     best_validation_scores |-> tr.best_validation_scores,
     best_mlfs |-> tr.best_mlfs]

\* the episode stats of fit (lines 79-107)
episode_stats(tr, env, mean_reward, loss) ==
    LET n_successful_mlfs == Len(tr.successful_mlfs)
        n_unique_mlfs == count_unique_mlfs(tr.algorithm_sets)
    IN [tr EXCEPT
            !.data_env_names = Append(@, env.data_env_name),
            !.losses = Append(@, loss),
            !.mean_rewards = Append(@, mean_reward),
            !.mean_validation_scores = Append(@, np_mean(tr.validation_scores)),
            !.std_validation_scores = Append(@, np_std(tr.validation_scores)),
            !.n_successful_mlfs = Append(@, n_successful_mlfs),
            !.n_unique_mlfs = Append(@, n_unique_mlfs),
            !.n_unique_hyperparameters =
                Append(@, count_unique_hyperparameters(tr.hyperparameter_sets)),
            !.mlf_framework_diversity =
                Append(@, ml_framework_diversity(n_unique_mlfs, n_successful_mlfs)),
            !.best_validation_scores = Append(@, tr.best_validation_score),
            !.best_mlfs = Append(@, tr.best_mlf)]

-----------------------------------------------------------------------------
(* fit(n_episodes, n_iter) step by step: each action is one method call of *)
(* fit, _fit_episode or _fit_iter; pc names the call that comes next.      *)

Init ==
    /\ pc = "fit"
    /\ fit_args \in FitArgs
    /\ \E k \in DOMAIN Collaborators :
        /\ \E logger \in Collaborators[k].loggers :
                trainer = CASHReinforce(Beta, TRUE, logger)
        /\ controller = [a_space |-> Catalog([i \in DOMAIN Pool |-> Some(IF i = 1 THEN 0 ELSE 1)], TRUE),
                         decodes |-> Collaborators[k].decodes,
                         reward_buffer |-> <<>>,
                         log_prob_buffer |-> <<>>,
                         baseline_reward_buffer |-> <<>>]
        /\ t_env = [data_envs |-> Collaborators[k].data_envs,
                    data_env_name |-> NoneVal,
                    scores |-> Collaborators[k].scores,
                    env_dep |-> Collaborators[k].env_dep,
                    error_reward |-> error_reward]
        /\ hash_fn = Collaborators[k].hashes
    /\ frame = NoFrame
    /\ calls = NoCalls
    /\ history_out = NoneVal
    /\ registry = {}
    /\ last_call = NoCall
    /\ HPIdle
    /\ SpaceIdle

\* fit, lines 46-63: the metrics and the baseline reward
FitStart ==
    /\ pc = "fit"
    /\ trainer' = [CASHReinforce(trainer.beta, trainer.with_baseline, trainer.metrics_logger)
                        EXCEPT !.n_episodes = Some(fit_args.n_episodes),
                               !.previous_baseline_reward = Some(Zero),
                               !.current_baseline_reward = Zero]
    /\ frame' = NoFrame
    /\ pc' = "episode"
    /\ UNCHANGED <<fit_args, controller, t_env, calls, history_out, hpVars, objVars, spVars>>

\* fit, lines 65-76, and _fit_episode, line 142
EpisodeStart ==
    /\ pc = "episode"
    /\ \E i \in DOMAIN t_env.data_envs :
            t_env' = [t_env EXCEPT !.data_env_name = Some(t_env.data_envs[i])]
    /\ trainer' = [reset_episode(trainer) EXCEPT !.n_valid_mlf = 0]
    /\ frame' = [frame EXCEPT !.i_iter = 0]
    /\ calls' = Called("sample_data_env")
    /\ pc' = "select_actions"
    /\ UNCHANGED <<fit_args, controller, history_out, hpVars, objVars, spVars>>

\* _fit_iter, lines 154-155: t_env.sample() and select_actions
SelectActions ==
    /\ pc = "select_actions"
    /\ \E i \in DOMAIN controller.decodes :
            frame' = [frame EXCEPT !.actions = Some(controller.decodes[i])]
    /\ calls' = [calls EXCEPT !.sample = @ + 1, !.decode = @ + 1]
    /\ pc' = "evaluate_actions"
    /\ UNCHANGED <<fit_args, trainer, controller, t_env, history_out, hpVars, objVars, spVars>>

\* evaluate_actions, lines 166-185; a ValueError of create_ml_framework
\* leaves fit
EvaluateActions ==
    /\ pc = "evaluate_actions"
    /\ LET got == get_mlf_components(Get(frame.actions))
           hyperparameters == dict(got.hyperparameters)
           mlf == create_ml_framework(got.algorithms, Some(hyperparameters), t_env.env_dep)
           updated == items_after_update(got.hyperparameters,
                            framework_hyperparameters(got.algorithms,
                                    Some(hyperparameters), t_env.env_dep))
       IN IF ~Returned(mlf)
          THEN /\ pc' = "raised"
               /\ calls' = Called("create_ml_framework")
               /\ UNCHANGED <<trainer, frame>>
          ELSE \E i \in DOMAIN t_env.scores :
                LET ev == record_evaluation(trainer, t_env, Get(mlf.value),
                                got.algorithms, updated, t_env.scores[i])
                IN /\ trainer' = ev.trainer
                   /\ frame' = [frame EXCEPT !.evaluated = Some(t_env.scores[i]),
                                             !.reward = Some(ev.reward)]
                   /\ calls' = [calls EXCEPT !.create_ml_framework = @ + 1,
                                             !.evaluate = @ + 1]
                   /\ pc' = "update_log_prob_buffer"
    /\ UNCHANGED <<fit_args, controller, t_env, history_out, hpVars, objVars, spVars>>

\* _update_log_prob_buffer, lines 187-189
UpdateLogProbBuffer ==
    /\ pc = "update_log_prob_buffer"
    /\ controller' = update_log_prob_buffer(controller, Get(frame.actions))
    /\ pc' = "update_reward_buffer"
    /\ UNCHANGED <<fit_args, trainer, t_env, frame, calls, history_out, hpVars, objVars, spVars>>

\* _update_reward_buffer, lines 191-192
UpdateRewardBuffer ==
    /\ pc = "update_reward_buffer"
    /\ controller' = [controller EXCEPT !.reward_buffer = Append(@, Get(frame.reward))]
    /\ pc' = "update_baseline_reward_buffer"
    /\ UNCHANGED <<fit_args, trainer, t_env, frame, calls, history_out, hpVars, objVars, spVars>>

\* _update_baseline_reward_buffer, lines 194-198, and the return to the
\* loop of _fit_episode, line 143
UpdateBaselineRewardBuffer ==
    /\ pc = "update_baseline_reward_buffer"
    /\ LET upd == update_baseline_reward_buffer(trainer, controller, Get(frame.reward))
       IN /\ trainer' = upd.trainer
          /\ controller' = upd.controller
    /\ frame' = [frame EXCEPT !.i_iter = @ + 1, !.actions = NoneVal,
                              !.evaluated = NoneVal, !.reward = NoneVal]
    /\ pc' = IF frame.i_iter + 1 < fit_args.n_iter
             THEN "select_actions" ELSE "episode_stats"
    /\ UNCHANGED <<fit_args, t_env, calls, history_out, hpVars, objVars, spVars>>

\* fit, lines 79-122: the episode stats, backward, the metrics logger, and
\* the return to the loop of line 64
EpisodeStats ==
    /\ pc = "episode_stats"
    /\ LET mean_reward == np_mean(controller.reward_buffer)
           back == backward(controller, trainer.with_baseline)
       IN /\ controller' = back.controller
          /\ trainer' = episode_stats(trainer, t_env, mean_reward, back.loss)
    /\ calls' = report_episode(trainer, Called("backward"))
    /\ frame' = [frame EXCEPT !.i_episode = @ + 1]
    /\ history_out' = IF trainer.metrics_logger THEN Some(history(trainer'))
                       ELSE history_out
    /\ pc' = IF frame.i_episode + 1 < fit_args.n_episodes THEN "episode" ELSE "done"
    /\ UNCHANGED <<fit_args, t_env, hpVars, objVars, spVars>>

\* history() (lines 125-139) called once fit has returned
CallHistory ==
    /\ pc = "done"
    /\ history_out' = Some(history(trainer))
    /\ UNCHANGED <<pc, fit_args, trainer, controller, t_env, frame, calls,
                   hpVars, objVars, spVars>>

Next ==
    \/ FitStart
    \/ EpisodeStart
    \/ SelectActions
    \/ EvaluateActions
    \/ UpdateLogProbBuffer
    \/ UpdateRewardBuffer
    \/ UpdateBaselineRewardBuffer
    \/ EpisodeStats
    \/ CallHistory

Spec == Init /\ [][Next]_vars

-----------------------------------------------------------------------------
(* Properties of the exclusion check                                       *)

Grid == Range(product(expanded_state_space(comp)))
Conditions == hyperparameter_exclusion_conditions(comp)

\* the value chosen at position i triggers a rule
Triggered(s, i) ==
    /\ s[i][1] \in DOMAIN Conditions
    /\ s[i][2] \in DOMAIN Conditions[s[i][1]]

\* the rule triggered at position i names the hyperparameter of position j
Targets(s, i, j) ==
    /\ Triggered(s, i)
    /\ s[j][1] \in DOMAIN Conditions[s[i][1]][s[i][2]]

\* ... and disallows the value chosen there
Disallows(s, i, j) ==
    /\ Targets(s, i, j)
    /\ s[j][2] \in Conditions[s[i][1]][s[i][2]][s[j][1]]

ForwardViolation(s) ==
    \E i, j \in DOMAIN s : i < j /\ Disallows(s, i, j)

Retained(s) == dict(s) \in Range(iterated)

\* s with the value at position i replaced by v
WithValue(s, i, v) == [s EXCEPT ![i] = <<s[i][1], v>>]

\* C2: hyperparameter_iterator() omits every assignment in which a value is
\* disallowed by a rule that an earlier-declared hyperparameter's chosen
\* value triggers, and retains the same assignment with another value in
\* place of the triggering one when no triggered rule disallows any of its
\* values.
C2_IteratorFiltersExcluded ==
    hp_pc = "iterated" =>
        \A s \in Grid : \A i, j \in DOMAIN s :
            (i < j /\ Disallows(s, i, j)) =>
                /\ ~Retained(s)
                /\ \A v \in Range(HValues) :
                      ~ForwardViolation(WithValue(s, i, v))
                          => Retained(WithValue(s, i, v))

\* C3: on reaching any position the excluded map holds, for each target,
\* every value disallowed by a rule triggered so far; so when two earlier
\* hyperparameters each trigger a rule for the same later hyperparameter, a
\* value disallowed by either makes the assignment invalid.
C3_TriggeredRulesMerged ==
    hp_pc = "iterated" =>
        \A s \in Grid :
            /\ \A j \in DOMAIN s : \A i \in 1..(j - 1) :
                  Targets(s, i, j) =>
                      /\ s[j][1] \in DOMAIN exclude_cases_before(s, Conditions, j)
                      /\ Conditions[s[i][1]][s[i][2]][s[j][1]]
                            \subseteq exclude_cases_before(s, Conditions, j)[s[j][1]]
            /\ \A i1, i2, j \in DOMAIN s :
                  (/\ i1 < i2 /\ i2 < j
                   /\ Targets(s, i1, j) /\ Targets(s, i2, j)
                   /\ (Disallows(s, i1, j) \/ Disallows(s, i2, j)))
                      => ~Retained(s)

\* C4: a rule never invalidates the hyperparameter that triggers it or one
\* declared before it: an assignment is dropped only if some rule triggered
\* at a position i disallows the value at a position j > i.
C4_RulesLookForward ==
    hp_pc = "iterated" =>
        \A s \in Grid : (Len(s) > 0 /\ ~ForwardViolation(s)) => Retained(s)

\* an assignment that is retained although a rule it triggers disallows the
\* value of the triggering hyperparameter itself or of an earlier one
C4_Witness ==
    /\ hp_pc = "iterated"
    /\ \E s \in Grid :
        /\ \E i, j \in DOMAIN s : j <= i /\ Disallows(s, i, j)
        /\ ~ForwardViolation(s)
        /\ Retained(s)

-----------------------------------------------------------------------------
(* Properties of component objects                                         *)

\* C7: construction succeeds only if component_type is one of the six
\* algorithm types; with any other value, an omitted one included, it fails
\* and produces no object, so every component has a valid component_type.
C7_ValidComponentType ==
    /\ \A c \in registry : c.component_type \in ALGORITHM_TYPES
    /\ last_call.op = "init" =>
        LET given == last_call.args[1]
            valid == ~IsNone(given) /\ Get(given) \in ALGORITHM_TYPES
        IN /\ Returned(last_call.out) => valid
           /\ ~valid => /\ ~Returned(last_call.out)
                        /\ IsNone(last_call.out.value)

\* a construction without component_type has failed, after one succeeded
C7_Witness ==
    /\ last_call.op = "init"
    /\ IsNone(last_call.args[1])
    /\ last_call.out.exc = "ValueError"
    /\ registry # {}

\* the components whose hash the process has computed
Hashed == {c \in registry : HashKey(c) \in DOMAIN hash_fn}

Eq(a, b) == component_eq(a, component_hash(b))

\* C8: two components compare equal and hash equal if and only if their
\* (name, component class, component_type) triples match, whatever their
\* other attributes; equality is reflexive, symmetric and transitive.
C8_EqualIffSameTriple ==
    \A a, b \in Hashed :
        /\ Eq(a, b) <=> HashKey(a) = HashKey(b)
        /\ (component_hash(a) = component_hash(b)) <=> HashKey(a) = HashKey(b)
        /\ Eq(a, a)
        /\ Eq(a, b) => Eq(b, a)
        /\ \A c \in Hashed : (Eq(a, b) /\ Eq(b, c)) => Eq(a, c)

-----------------------------------------------------------------------------
(* Properties of the algorithm space                                       *)

\* the settings of c that pass the exclusion check
ValidSettings(c) ==
    {dict(st) : st \in {g \in Range(product(expanded_state_space(c))) :
        ~IsNone(check_hyperparameters(g, hyperparameter_exclusion_conditions(c)))}}

\* one setting per chosen component, united
RECURSIVE SettingsOf(_)
SettingsOf(cs) ==
    IF Len(cs) = 0 THEN {EmptyDict}
    ELSE {DictUpdate(d, rest) : d \in ValidSettings(Head(cs)),
                                rest \in SettingsOf(Tail(cs))}

\* the component choices of a signature: one registered component per slot
Choices(a, signature) ==
    Range(product([i \in DOMAIN signature |-> get_components(a, signature[i])]))

ExpectedFrameworks(a, signature) ==
    UNION {{[steps |-> [i \in DOMAIN cs |-> cs[i].name], params |-> d] :
                d \in SettingsOf(cs)} :
            cs \in Choices(a, signature)}

\* C1: for a signature whose every slot has a registered component,
\* framework_iterator yields exactly one pipeline for each choice of one
\* component per slot and one valid hyperparameter setting per chosen
\* component, without duplicates or omissions.  (Stated for signatures
\* that name no type twice.)
C1_FrameworkIteratorEnumerates ==
    sp_call.op = "framework_iterator" =>
        LET a == Get(a_space)
            signature == sp_call.args[1]
        IN (/\ \A i \in DOMAIN signature : Len(get_components(a, signature[i])) >= 1
            /\ \A i, j \in DOMAIN signature : signature[i] = signature[j] => i = j)
           => /\ Returned(sp_call.out)
              /\ Get(sp_call.out.value).exc = ""
              /\ Range(Get(sp_call.out.value).items) = ExpectedFrameworks(a, signature)
              /\ Len(Get(sp_call.out.value).items)
                    = Cardinality(ExpectedFrameworks(a, signature))

\* whether c is in one of the lists the space was built with
RegisteredIn(a, c) ==
    c \in Range(a.data_preprocessors) \cup Range(a.feature_preprocessors)
            \cup Range(a.classifiers) \cup Range(a.regressors)

-----------------------------------------------------------------------------
(* Properties of the trainer                                               *)

\* the rewards [1.0, 0.0] of the first two iterations of a fit call
RewardsOneZero ==
    /\ frame.i_episode = 0
    /\ trainer.beta = Frac(9, 10)
    /\ controller.reward_buffer = <<One, Zero>>
    /\ Len(controller.baseline_reward_buffer) = 2

\* C9: the baseline update of an iteration with reward r (the error reward
\* when the evaluation failed) records the baseline as it was and makes it
\* beta * r + (1 - beta) * the previous baseline; with beta = 0.9 and the
\* rewards [1.0, 0.0] the recorded baselines are [0, 0.9] and the baseline
\* ends at 0.09
C9_BaselineIsExponentialMean ==
    [][pc = "update_baseline_reward_buffer" =>
        LET r == Get(frame.reward)
            previous == trainer.current_baseline_reward
        IN /\ r = controller.reward_buffer[Len(controller.reward_buffer)]
           /\ trainer'.current_baseline_reward =
                FAdd(FMul(trainer.beta, r), FMul(FSub(One, trainer.beta), previous))
           /\ controller'.baseline_reward_buffer =
                Append(controller.baseline_reward_buffer, previous)
           /\ RewardsOneZero' =>
                /\ controller'.baseline_reward_buffer = <<Zero, Frac(9, 10)>>
                /\ trainer'.current_baseline_reward = Frac(9, 100)]_vars

C9_Witness ==
    /\ RewardsOneZero
    /\ trainer.current_baseline_reward = Frac(9, 100)
    /\ pc = "select_actions"

\* a task environment that always returns 0.5 and a controller that always
\* proposes the same valid pipeline
FixedCollaborators ==
    /\ t_env.scores = <<Some(Half)>>
    /\ controller.decodes = <<SamePipeline>>

Repeat(n, v) == [i \in 1..n |-> v]

\* C10: when fit(n_episodes, n_iter) returns after a run in which every
\* evaluation gave 0.5 to the same valid pipeline, every episode has mean
\* reward 0.5, n_iter successful pipelines, one unique pipeline and best
\* validation score 0.5
C10_FixedRewardRun ==
    (pc = "done" /\ FixedCollaborators) =>
        /\ trainer.mean_rewards = Repeat(fit_args.n_episodes, Half)
        /\ trainer.n_successful_mlfs = Repeat(fit_args.n_episodes, fit_args.n_iter)
        /\ trainer.n_unique_mlfs = Repeat(fit_args.n_episodes, 1)
        /\ trainer.best_validation_scores = Repeat(fit_args.n_episodes, Some(Half))

C10_Witness ==
    /\ pc = "done"
    /\ FixedCollaborators
    /\ fit_args = [n_episodes |-> 2, n_iter |-> 3]
    /\ trainer.mean_rewards = <<Half, Half>>
    /\ trainer.n_successful_mlfs = <<3, 3>>
    /\ trainer.n_unique_mlfs = <<1, 1>>
    /\ trainer.best_validation_scores = <<Some(Half), Some(Half)>>


\* an episode has just been recorded and its lists are still in place
EpisodeRecorded == pc \in {"episode", "done"} /\ frame.i_episode >= 1

Last(xs) == xs[Len(xs)]

\* the pipelines of the episode that differ in their ordered sequence of
\* (name, component class, component type)
StructurallyUnique(algorithm_sets) ==
    {[i \in DOMAIN algorithm_sets[k] |-> HashKey(algorithm_sets[k][i])] :
        k \in DOMAIN algorithm_sets}

\* C11: the diversity recorded for an episode is (structurally unique
\* successful pipelines) / (successful pipelines), and 0 when no pipeline
\* succeeded
C11_DiversityIsUniqueOverSuccessful ==
    EpisodeRecorded =>
        Last(trainer.mlf_framework_diversity) =
            IF Len(trainer.successful_mlfs) = 0 THEN Zero
            ELSE Frac(Cardinality(StructurallyUnique(trainer.algorithm_sets)),
                      Len(trainer.successful_mlfs))

\* the same, in processes where no two hashes collide
C11_Injective ==
    hash_fn = DistinctHashes => C11_DiversityIsUniqueOverSuccessful


\* the iterations completed since fit was called
IterationsDone ==
    frame.i_episode * fit_args.n_iter
        + (IF pc \in {"fit", "episode", "done"} THEN 0 ELSE frame.i_iter)

InIteration(pcs) == IF pc \in pcs THEN 1 ELSE 0

UpdateSteps ==
    {"update_log_prob_buffer", "update_reward_buffer", "update_baseline_reward_buffer"}

IterationSteps == {"select_actions", "evaluate_actions"} \cup UpdateSteps

\* the calls made so far are those of the episodes and iterations done so
\* far, each once and in the order of the steps
TraceInOrder ==
    /\ calls.sample_data_env
        = frame.i_episode + InIteration(IterationSteps \cup {"episode_stats"})
    /\ calls.backward = frame.i_episode
    /\ calls.sample = IterationsDone + InIteration({"evaluate_actions"} \cup UpdateSteps)
    /\ calls.decode = calls.sample
    /\ calls.create_ml_framework = IterationsDone + InIteration(UpdateSteps)
    /\ calls.evaluate = calls.create_ml_framework
    /\ pc \in IterationSteps \cup {"episode_stats"} =>
        /\ Len(controller.log_prob_buffer) = frame.i_iter
                + InIteration({"update_reward_buffer", "update_baseline_reward_buffer"})
        /\ Len(controller.reward_buffer) = frame.i_iter
                + InIteration({"update_baseline_reward_buffer"})
        /\ Len(controller.baseline_reward_buffer) = frame.i_iter
    /\ pc = "done" =>
        /\ calls.sample_data_env = fit_args.n_episodes
        /\ calls.evaluate = fit_args.n_episodes * fit_args.n_iter
        /\ calls.backward = fit_args.n_episodes

\* the steps of one iteration that remain to be taken
StepsLeftInIteration ==
    CASE pc = "select_actions" -> 5
      [] pc = "evaluate_actions" -> 4
      [] pc = "update_log_prob_buffer" -> 3
      [] pc = "update_reward_buffer" -> 2
      [] pc = "update_baseline_reward_buffer" -> 1

StepsOfEpisode == 2 + 5 * fit_args.n_iter

\* the steps fit has still to take when nothing raises
StepsLeft ==
    CASE pc = "fit" -> 1 + fit_args.n_episodes * StepsOfEpisode
      [] pc = "episode" -> (fit_args.n_episodes - frame.i_episode) * StepsOfEpisode
      [] pc \in IterationSteps ->
            StepsLeftInIteration + 5 * (fit_args.n_iter - frame.i_iter - 1) + 1
                + (fit_args.n_episodes - frame.i_episode - 1) * StepsOfEpisode
      [] pc = "episode_stats" ->
            1 + (fit_args.n_episodes - frame.i_episode - 1) * StepsOfEpisode
      [] pc \in {"done", "raised"} -> 0

\* C12: whatever evaluations fail, every step of fit brings it nearer to
\* its end, so it terminates, and as long as no pipeline assembly raises,
\* each episode is one sample_data_env, n_iter iterations of sample,
\* decode, create_ml_framework, evaluate and the three buffer appends, and
\* one backward: n_episodes * n_iter evaluations and n_episodes backward
\* calls in all
C12_EpisodesAndIterationsInOrder ==
    [][pc # "done" =>
        /\ StepsLeft' < StepsLeft
        /\ StepsLeft' >= 0
        /\ pc' = "raised" \/ StepsLeft' = StepsLeft - 1
        /\ pc' # "raised" => TraceInOrder']_vars

\* a run of 2 x 3 iterations has ended, all evaluations of the second
\* episode and some of the first having failed
C12_Witness ==
    /\ pc = "done"
    /\ fit_args = [n_episodes |-> 2, n_iter |-> 3]
    /\ calls.evaluate = 6
    /\ calls.backward = 2
    /\ trainer.n_successful_mlfs = <<1, 0>>


\* t_env.evaluate has returned None in the iteration under way
EvaluationFailed == pc \in UpdateSteps /\ frame.evaluated = Some(NoneVal)

\* the lists, the count and the best of the episode
EpisodeLists ==
    <<trainer.validation_scores, trainer.successful_mlfs, trainer.algorithm_sets,
      trainer.hyperparameter_sets, trainer.n_valid_mlf,
      trainer.best_validation_score, trainer.best_mlf>>

\* C13: an iteration whose evaluation returns None appends the error
\* reward of the task environment to the reward buffer, feeds it to the
\* baseline update, and leaves the lists, the valid-pipeline count and
\* the best score and pipeline of the episode as they were
C13_FailureGivesErrorReward ==
    [][/\ EvaluationFailed' =>
            /\ frame'.reward = Some(t_env.error_reward)
            /\ EpisodeLists' = EpisodeLists
       /\ (EvaluationFailed /\ pc = "update_reward_buffer") =>
            controller'.reward_buffer
                = Append(controller.reward_buffer, t_env.error_reward)
       /\ (EvaluationFailed /\ pc = "update_baseline_reward_buffer") =>
            /\ trainer'.current_baseline_reward =
                exponential_mean(t_env.error_reward,
                                 trainer.current_baseline_reward, trainer.beta)
            /\ EpisodeLists' = EpisodeLists]_vars

\* a failed evaluation after a successful one of the same episode
C13_Witness ==
    /\ EvaluationFailed
    /\ pc = "update_baseline_reward_buffer"
    /\ Last(controller.reward_buffer) = t_env.error_reward
    /\ trainer.n_valid_mlf = 1
    /\ ~IsNone(trainer.best_mlf)


\* the actions decoded in this iteration name a hyperparameter that no
\* estimator of the pipeline has
UnknownHyperparameterName ==
    /\ pc = "evaluate_actions"
    /\ LET got == get_mlf_components(Get(frame.actions))
       IN \E i \in DOMAIN got.hyperparameters :
            got.hyperparameters[i][1] \notin valid_params(got.algorithms)

\* C14: when the decoded actions name a hyperparameter that no estimator
\* of the pipeline has, the error leaves fit at once: evaluate is not
\* called, the buffers, the reward and the attributes of the trainer stay
\* as they are, and nothing happens afterwards
C14_AssemblyErrorPropagates ==
    [][/\ UnknownHyperparameterName =>
            /\ pc' = "raised"
            /\ calls'.evaluate = calls.evaluate
            /\ calls'.backward = calls.backward
            /\ controller' = controller
            /\ trainer' = trainer
            /\ frame'.reward = NoneVal
       /\ pc # "raised"]_vars

\* the error of the second episode's first iteration
C14_Witness ==
    /\ pc = "raised"
    /\ frame.i_episode = 1
    /\ frame.i_iter = 0
    /\ calls.create_ml_framework = calls.evaluate + 1
    /\ controller.reward_buffer = <<>>
    /\ Len(trainer.losses) = 1


\* the iterations of the episode are over and none of its evaluations
\* has succeeded
AllEvaluationsFailed ==
    /\ pc = "episode_stats"
    /\ Len(controller.reward_buffer) = fit_args.n_iter
    /\ trainer.validation_scores = <<>>
    /\ trainer.n_valid_mlf = 0

\* C15: an episode all of whose evaluations failed is recorded with mean
\* and std validation score nan, no successful and no unique pipeline,
\* diversity 0, no best score and no best pipeline, and the error reward
\* as mean reward; backward is called once and the next episode, if there
\* is one, is up next
C15_EpisodeWithoutSuccess ==
    [][AllEvaluationsFailed =>
        /\ Last(trainer'.mean_validation_scores) = NaN
        /\ Last(trainer'.std_validation_scores) = [sqrt |-> NaN]
        /\ Last(trainer'.n_successful_mlfs) = 0
        /\ Last(trainer'.n_unique_mlfs) = 0
        /\ Last(trainer'.mlf_framework_diversity) = Zero
        /\ Last(trainer'.best_validation_scores) = NoneVal
        /\ Last(trainer'.best_mlfs) = NoneVal
        /\ Last(trainer'.mean_rewards) = t_env.error_reward
        /\ Len(trainer'.mean_rewards) = frame.i_episode + 1
        /\ calls'.backward = calls.backward + 1
        /\ pc' = IF frame.i_episode + 1 < fit_args.n_episodes
                 THEN "episode" ELSE "done"]_vars

\* the second episode under way after a first one without success
C15_Witness ==
    /\ pc = "select_actions"
    /\ frame.i_episode = 1
    /\ trainer.n_successful_mlfs = <<0>>
    /\ trainer.mean_validation_scores = <<NaN>>
    /\ trainer.mean_rewards = <<error_reward>>
    /\ calls.backward = 1
    /\ calls.sample_data_env = 2


\* the names of the components of type component_type
NamesOfType(a, component_type) ==
    {get_components(a, component_type)[i].name :
        i \in DOMAIN get_components(a, component_type)}

\* the hyperparameter values a component named name may be given
DeclaredDomains(a, name) ==
    LET registered == a.data_preprocessors \o a.feature_preprocessors
                        \o a.classifiers \o a.regressors
        c == CHOOSE c \in Range(registered) : c.name = name
    IN hyperparameter_state_space(c)

\* C16: for a signature whose every slot has a registered component,
\* sample_ml_framework returns a pipeline with one component per slot, in
\* signature order and of the slot's type, and a value of its own domain
\* for every hyperparameter the sampled components declare
C16_SampleMlFramework ==
    sp_call.op = "sample_ml_framework" =>
        LET a == Get(a_space)
            signature == sp_call.args[1]
            out == sp_call.out
        IN (\A i \in DOMAIN signature : Len(get_components(a, signature[i])) >= 1)
           => /\ Returned(out)
              /\ LET mlf == Get(out.value)
                 IN /\ Len(mlf.steps) = Len(signature)
                    /\ \A i \in DOMAIN signature :
                        /\ mlf.steps[i] \in NamesOfType(a, signature[i])
                        /\ LET space == DeclaredDomains(a, mlf.steps[i])
                           IN \A k \in DOMAIN space :
                                /\ space[k][1] \in DOMAIN mlf.params
                                /\ mlf.params[space[k][1]] \in Range(space[k][2])


\* the first iteration of an episode has recorded its baseline
FirstBaselineRecorded ==
    /\ pc \in IterationSteps \cup {"episode_stats"}
    /\ Len(controller.baseline_reward_buffer) >= 1

\* C17: the baseline recorded by the first iteration of every episode is
\* the initial baseline 0, whatever the rewards of earlier episodes
C17_BaselineResetEachEpisode ==
    FirstBaselineRecorded => controller.baseline_reward_buffer[1] = Zero

\* the same for the first episode of a fit call only
C17_FirstEpisode ==
    (FirstBaselineRecorded /\ frame.i_episode = 0)
        => controller.baseline_reward_buffer[1] = Zero


HistoryKeys ==
    {"episode", "data_env_names", "losses", "mean_rewards",
     "mean_validation_scores", "std_validation_scores", "n_successful_mlfs",
     "n_unique_mlfs", "n_unique_hyperparameters", "best_validation_scores",
     "best_mlfs"}

\* C18: what history() returns, to the metrics callback after an episode
\* or to a caller after fit, has one entry per completed episode in each
\* of its sequences, the i-th being that of episode i
C18_HistoryOneEntryPerEpisode ==
    ~IsNone(history_out) =>
        LET h == Get(history_out)
        IN /\ \A k \in HistoryKeys : Len(h[k]) = frame.i_episode
           /\ \A i \in DOMAIN h.episode : h.episode[i] = i
           /\ \A k \in HistoryKeys \ {"episode"} : h[k] = trainer[k]

\* the same for calls made after fit has returned
C18_AfterFit ==
    (~IsNone(history_out) /\ pc = "done") =>
        \A k \in HistoryKeys : Len(Get(history_out)[k]) = fit_args.n_episodes


\* C19: the baseline appended to the baseline buffer in an iteration is the
\* one the previous iteration left (0 in the first iteration of a fit
\* call); it is appended after the reward has gone to the reward buffer,
\* and the baseline changes in no other step than the one that follows
\* the append
C19_BaselineRecordedBeforeUpdate ==
    [][/\ pc = "update_baseline_reward_buffer" =>
            /\ controller'.baseline_reward_buffer =
                Append(controller.baseline_reward_buffer,
                       trainer.current_baseline_reward)
            /\ Len(controller.reward_buffer)
                = Len(controller.baseline_reward_buffer) + 1
            /\ Last(controller.reward_buffer) = Get(frame.reward)
            /\ IterationsDone = 0 => Last(controller'.baseline_reward_buffer) = Zero
       /\ pc \notin {"fit", "update_baseline_reward_buffer"} =>
            trainer'.current_baseline_reward = trainer.current_baseline_reward
       /\ pc = "fit" => trainer'.current_baseline_reward = Zero]_vars

\* the second iteration of a fit call has recorded the baseline that the
\* first one left
C19_Witness ==
    /\ pc = "select_actions"
    /\ frame.i_episode = 0
    /\ frame.i_iter = 2
    /\ controller.baseline_reward_buffer = <<Zero, Frac(9, 20)>>
    /\ trainer.current_baseline_reward = Frac(99, 200)

\* the largest of a list of scores, none for an empty list
MaxScore(scores) ==
    IF Len(scores) = 0 THEN NoneVal
    ELSE Some(CHOOSE x \in Range(scores) : \A y \in Range(scores) : ~FGt(y, x))

\* the pipeline of the first evaluation of the episode with the largest score
FirstBest(scores, mlfs) ==
    IF Len(scores) = 0 THEN NoneVal
    ELSE Some(mlfs[CHOOSE i \in DOMAIN scores :
                    /\ Some(scores[i]) = MaxScore(scores)
                    /\ \A j \in DOMAIN scores :
                            Some(scores[j]) = MaxScore(scores) => i <= j])

BestIsFirstMax ==
    /\ trainer.best_validation_score = MaxScore(trainer.validation_scores)
    /\ trainer.best_mlf = FirstBest(trainer.validation_scores, trainer.successful_mlfs)

\* C20: the running best validation score is the largest score of the
\* episode's successful evaluations so far, none when there are none; it
\* does not decrease within an episode; the running best pipeline is the
\* first of the episode to have reached that score
C20_BestIsEarliestMaximum ==
    [][/\ pc \notin {"fit"} => BestIsFirstMax'
       /\ (pc \notin {"fit", "episode"} /\ ~IsNone(trainer.best_validation_score)) =>
            /\ ~IsNone(trainer'.best_validation_score)
            /\ ~FGt(Get(trainer.best_validation_score),
                    Get(trainer'.best_validation_score))]_vars

\* a score reached a second time by another pipeline
C20_Witness ==
    /\ trainer.validation_scores = <<Zero, One, One>>
    /\ trainer.successful_mlfs[2] # trainer.successful_mlfs[3]
    /\ trainer.best_mlf = Some(trainer.successful_mlfs[2])
    /\ trainer.best_validation_score = Some(One)

\* the rewards of the successful evaluations among rewards, in order
RECURSIVE Successes(_)
Successes(rewards) ==
    IF Len(rewards) = 0 THEN <<>>
    ELSE (IF Head(rewards) = error_reward THEN <<>> ELSE <<Head(rewards)>>)
            \o Successes(Tail(rewards))

\* the bookkeeping of the episode is empty
EpisodeBookkeepingEmpty ==
    /\ trainer.validation_scores = <<>>
    /\ trainer.successful_mlfs = <<>>
    /\ trainer.best_validation_score = NoneVal
    /\ trainer.best_mlf = NoneVal

\* C21: the step that starts an episode calls sample_data_env and leaves
\* the validation-score list and the successful-pipeline list empty and
\* the best score and pipeline none before the first iteration; so the
\* scores an episode has collected when its iterations are over are those
\* of its own successful evaluations, and its recorded success count,
\* unique count, mean and std validation score, best score and best
\* pipeline are computed from them alone
C21_EpisodeBookkeepingReset ==
    [][/\ pc = "episode" =>
            /\ pc' = "select_actions"
            /\ frame'.i_iter = 0
            /\ calls'.sample_data_env = calls.sample_data_env + 1
            /\ calls'.sample = calls.sample
            /\ EpisodeBookkeepingEmpty'
       /\ pc = "episode_stats" =>
            LET own == Successes(controller.reward_buffer)
            IN /\ Len(controller.reward_buffer) = fit_args.n_iter
               /\ trainer.validation_scores = own
               /\ Len(trainer.successful_mlfs) = Len(own)
               /\ Len(trainer.algorithm_sets) = Len(own)
               /\ Last(trainer'.n_successful_mlfs) = Len(own)
               /\ Last(trainer'.n_unique_mlfs) = count_unique_mlfs(trainer.algorithm_sets)
               /\ Last(trainer'.mean_validation_scores) = np_mean(own)
               /\ Last(trainer'.std_validation_scores) = np_std(own)
               /\ Last(trainer'.best_validation_scores) = MaxScore(own)
               /\ Last(trainer'.best_mlfs) = FirstBest(own, trainer.successful_mlfs)]_vars

\* a second episode with one success of score 0 recorded after a first
\* one with three successes and best score 1
C21_Witness ==
    /\ pc = "done"
    /\ trainer.n_successful_mlfs = <<3, 1>>
    /\ trainer.best_validation_scores = <<Some(One), Some(Zero)>>
    /\ trainer.mean_validation_scores[2] = Zero

\* the lengths of the three buffers of the controller
BufferLengths ==
    <<Len(controller.reward_buffer), Len(controller.log_prob_buffer),
      Len(controller.baseline_reward_buffer)>>

\* the log-probabilities of the actions decoded in the iteration under way
DecodedLogProbs ==
    [i \in DOMAIN Get(frame.actions) |-> Get(frame.actions)[i].action_log_prob]

\* C22: with a backward that drains the buffers, between two iterations
\* the reward, log-probability and baseline buffers each hold as many
\* entries as the episode has completed iterations; an iteration appends
\* the list of the log-probabilities of its decoded actions, in order, its
\* reward and one baseline, one entry each; when backward is called each
\* buffer holds the n_iter entries of the episode, the mean reward
\* recorded is the sum of those rewards over n_iter, and backward leaves
\* the buffers empty
C22_BuffersHoldTheEpisode ==
    [][/\ pc \in {"select_actions", "episode_stats"} =>
            BufferLengths = <<frame.i_iter, frame.i_iter, frame.i_iter>>
       /\ pc \in {"episode", "select_actions", "evaluate_actions"} =>
            /\ controller' = controller
            /\ pc = "episode" => BufferLengths = <<0, 0, 0>>
       /\ pc = "update_log_prob_buffer" =>
            /\ controller'.log_prob_buffer
                    = Append(controller.log_prob_buffer, DecodedLogProbs)
            /\ Len(DecodedLogProbs) = Len(Get(frame.actions))
            /\ controller'.reward_buffer = controller.reward_buffer
            /\ controller'.baseline_reward_buffer = controller.baseline_reward_buffer
       /\ pc = "update_reward_buffer" =>
            /\ controller'.reward_buffer
                    = Append(controller.reward_buffer, Get(frame.reward))
            /\ controller'.log_prob_buffer = controller.log_prob_buffer
            /\ controller'.baseline_reward_buffer = controller.baseline_reward_buffer
       /\ pc = "update_baseline_reward_buffer" =>
            /\ Len(controller'.baseline_reward_buffer)
                    = Len(controller.baseline_reward_buffer) + 1
            /\ controller'.reward_buffer = controller.reward_buffer
            /\ controller'.log_prob_buffer = controller.log_prob_buffer
            /\ BufferLengths' = <<frame'.i_iter, frame'.i_iter, frame'.i_iter>>
            /\ frame'.i_iter = frame.i_iter + 1
       /\ pc = "episode_stats" =>
            /\ BufferLengths = <<fit_args.n_iter, fit_args.n_iter, fit_args.n_iter>>
            /\ FMul(Last(trainer'.mean_rewards), Frac(fit_args.n_iter, 1))
                    = FSum(controller.reward_buffer)
            /\ BufferLengths' = <<0, 0, 0>>]_vars

\* the second episode of a run is about to call backward with the three
\* entries of its own iterations, one of them a failure
C22_Witness ==
    /\ pc = "episode_stats"
    /\ frame.i_episode = 1
    /\ controller.reward_buffer = <<One, error_reward, Zero>>
    /\ Len(controller.log_prob_buffer) = 3
    /\ \E i, j \in 1..3 :
            Len(controller.log_prob_buffer[i]) # Len(controller.log_prob_buffer[j])
    /\ Len(controller.baseline_reward_buffer) = 3
    /\ trainer.mean_rewards # <<Zero>>

\* the positions of the actions of a type in an action sequence
PositionsOfType(actions, action_type) ==
    {i \in DOMAIN actions : actions[i].action_type = action_type}

\* algorithms holds the values of the ALGORITHM actions, in their order
AlgorithmsInOrder(actions, algorithms) ==
    LET at == PositionsOfType(actions, ALGORITHM)
    IN /\ Len(algorithms) = Cardinality(at)
       /\ \A i \in at :
            algorithms[Cardinality({j \in at : j <= i})] = actions[i].action

\* the items hold one entry per name of a HYPERPARAMETER action, with the
\* value of the last action of that name
HyperparametersLastWins(actions, items) ==
    LET at == PositionsOfType(actions, HYPERPARAMETER)
    IN /\ {items[k][1] : k \in DOMAIN items} = {actions[i].action_name : i \in at}
       /\ Len(items) = Cardinality({actions[i].action_name : i \in at})
       /\ \A k \in DOMAIN items :
            \E i \in at :
                /\ items[k] = <<actions[i].action_name, actions[i].action>>
                /\ \A j \in at :
                        actions[j].action_name = actions[i].action_name => j <= i

\* C23: for the action sequence decoded in an iteration,
\* _get_mlf_components returns the values of the ALGORITHM actions in
\* their order and a mapping from name to value over the HYPERPARAMETER
\* actions in which a repeated name has its last value; actions of other
\* types contribute to neither, and the action sequence stays as it was
C23_GetMlfComponentsPartitions ==
    [][pc = "evaluate_actions" =>
        LET actions == Get(frame.actions)
            got == get_mlf_components(actions)
        IN /\ AlgorithmsInOrder(actions, got.algorithms)
           /\ HyperparametersLastWins(actions, got.hyperparameters)
           /\ frame'.actions = frame.actions
           /\ pc' # "raised" =>
                (frame'.evaluated # Some(NoneVal) =>
                    Last(trainer'.algorithm_sets) = got.algorithms)]_vars

\* the pipeline that sets one hyperparameter twice and has an action of
\* another type has been evaluated: two algorithms and the second value
C23_Witness ==
    /\ pc = "update_log_prob_buffer"
    /\ frame.actions = Some(OtherPipeline)
    /\ Len(OtherPipeline) = 5
    /\ frame.evaluated # Some(NoneVal)
    /\ Last(trainer.algorithm_sets) = <<S1, K2>>
    /\ get_mlf_components(OtherPipeline).hyperparameters
            = <<(<<Fmt(K2.name, HName(1)), HValues[2]>>)>>
    /\ \E i \in DOMAIN Last(trainer.hyperparameter_sets) :
            Last(trainer.hyperparameter_sets)[i] = <<Fmt(K2.name, HName(1)), HValues[2]>>

\* the lists fit accumulates, one entry per episode
Accumulators ==
    (HistoryKeys \ {"episode"}) \cup {"mlf_framework_diversity"}

\* the reports made so far: one per completed episode, by the callback
\* when there is one and by the default line otherwise
OneReportPerEpisode ==
    /\ calls.metrics_logger = IF trainer.metrics_logger THEN frame.i_episode ELSE 0
    /\ calls.progress_line = IF trainer.metrics_logger THEN 0 ELSE frame.i_episode

\* C24: a metrics callback is called once per episode, in the step that
\* ends the episode: backward has been called for the episode, every
\* accumulator list has as many entries as the callback has had calls,
\* the history it can read has them too, and the sample_data_env of the
\* next episode is yet to come; the default line is then never printed,
\* and without a callback it is printed once per episode instead
C24_MetricsCallbackOncePerEpisode ==
    [][/\ OneReportPerEpisode'
       /\ pc # "episode_stats" =>
            /\ calls'.metrics_logger = calls.metrics_logger
            /\ calls'.progress_line = calls.progress_line
       /\ pc = "episode_stats" =>
            /\ calls'.backward = calls.backward + 1
            /\ calls'.backward = frame'.i_episode
            /\ calls'.sample_data_env = frame'.i_episode
            /\ \A k \in Accumulators : Len(trainer'[k]) = frame'.i_episode
            /\ trainer.metrics_logger =>
                    /\ calls'.metrics_logger = calls.metrics_logger + 1
                    /\ calls'.progress_line = 0
                    /\ history_out' = Some(history(trainer'))
                    /\ \A k \in Accumulators : Len(trainer'[k]) = calls'.metrics_logger
            /\ ~trainer.metrics_logger =>
                    /\ calls'.progress_line = calls.progress_line + 1
                    /\ calls'.metrics_logger = 0
                    /\ history_out' = history_out]_vars

\* the callback has had its second call, at the end of the second episode
C24_Witness ==
    /\ pc = "done"
    /\ trainer.metrics_logger
    /\ calls.metrics_logger = 2
    /\ calls.progress_line = 0
    /\ calls.backward = 2
    /\ Len(trainer.losses) = 2
    /\ history_out = Some(history(trainer))

\* the elements of the product that pass the exclusion check
Passing ==
    {s \in Grid : ~IsNone(check_hyperparameters(s, Conditions))}

\* the iterator has yielded one mapping for each passing element and
\* nothing else
OneMappingPerPassingElement ==
    /\ Len(iterated) = Cardinality(Passing)
    /\ \A s \in Passing :
            Cardinality({i \in DOMAIN iterated : iterated[i] = dict(s)}) = 1
    /\ \A i \in DOMAIN iterated : \E s \in Passing : iterated[i] = dict(s)

\* C25: hyperparameter_iterator() yields one name -> value mapping for
\* each element of the product of the declared domains that passes the
\* exclusion check, and nothing else; a component that declares no
\* hyperparameters yields one mapping, the empty one
C25_OneMappingPerValidSetting ==
    hp_pc = "iterated" =>
        /\ OneMappingPerPassingElement
        /\ hyperparameter_state_space(comp) = <<>> => iterated = <<EmptyDict>>

\* the same for the components that declare a hyperparameter
C25_DeclaringComponents ==
    (hp_pc = "iterated" /\ hyperparameter_state_space(comp) # <<>>)
        => OneMappingPerPassingElement

\* a component with three hyperparameters and a rule has been enumerated:
\* fewer mappings than the product has elements
C25_DeclaringWitness ==
    /\ hp_pc = "iterated"
    /\ Len(hyperparameter_state_space(comp)) = MaxHyperparameters
    /\ Len(iterated) >= 1
    /\ Len(iterated) < Cardinality(Grid)

\* the step is an evaluate_actions call that records a successful pipeline
RecordsSuccess ==
    /\ pc = "evaluate_actions"
    /\ pc' = "update_log_prob_buffer"
    /\ frame'.evaluated # Some(NoneVal)

\* the hyperparameter set recorded by the step is the mapping
\* _get_mlf_components built from the HYPERPARAMETER actions
RecordedAsDecoded ==
    LET actions == Get(frame.actions)
        got == get_mlf_components(actions)
        recorded == Last(trainer'.hyperparameter_sets)
    IN /\ recorded = got.hyperparameters
       /\ \A k \in DOMAIN recorded :
            \E i \in PositionsOfType(actions, HYPERPARAMETER) :
                recorded[k][1] = actions[i].action_name

\* C26: create_ml_framework leaves the hyperparameters mapping of its
\* caller as it was, so the hyperparameter set recorded for a successful
\* pipeline holds the entries of the HYPERPARAMETER actions and no
\* environment-dependent entry
C26_CallerMappingUnchanged ==
    [][RecordsSuccess => RecordedAsDecoded]_vars

\* the same when neither the task environment nor a component has
\* environment-dependent hyperparameters
C26_WithoutEnvDep ==
    [][(RecordsSuccess /\ IsNone(t_env.env_dep)) => RecordedAsDecoded]_vars

\* a pipeline recorded in a task environment without environment-dependent
\* hyperparameters
C26_WithoutEnvDepWitness ==
    /\ pc = "update_log_prob_buffer"
    /\ IsNone(t_env.env_dep)
    /\ frame.actions = Some(OtherPipeline)
    /\ Len(trainer.hyperparameter_sets) = 2
    /\ Last(trainer.hyperparameter_sets) = <<(<<Fmt(K2.name, HName(1)), HValues[2]>>)>>

\* fit has made the first sample_data_env call of the run
InFitRun == pc # "fit" /\ ~(pc = "episode" /\ frame.i_episode = 0)

\* the valid-pipeline counter is the length of each list of the episode
CounterIsLengthOfLists ==
    /\ trainer.n_valid_mlf = Len(trainer.validation_scores)
    /\ trainer.n_valid_mlf = Len(trainer.successful_mlfs)
    /\ trainer.n_valid_mlf = Len(trainer.algorithm_sets)
    /\ trainer.n_valid_mlf = Len(trainer.hyperparameter_sets)

\* the counts recorded for the episodes so far
RecordedCountsInRange ==
    \A e \in DOMAIN trainer.n_unique_mlfs :
        /\ 0 <= trainer.n_unique_mlfs[e]
        /\ trainer.n_unique_mlfs[e] <= trainer.n_successful_mlfs[e]
        /\ trainer.n_successful_mlfs[e] <= fit_args.n_iter
        /\ trainer.n_unique_mlfs[e] = 0 <=> trainer.n_successful_mlfs[e] = 0

\* the iteration under way has made its evaluation
EvaluatedNotCompleted == InIteration(UpdateSteps)

====
